---------------------------- MODULE Spec2Model ----------------------------
(***************************************************************************)
(* A model of the room-layout editor ("packer"): the validity engine       *)
(* (utils/geometry), the view transform and drag inversion of the          *)
(* isometric scene (components/IsoScene.tsx) and the layout commands of    *)
(* the editor component (LayoutEditor).                                    *)
(*                                                                         *)
(* Numbers.  The program computes with JavaScript numbers.  The model      *)
(* computes with exact rationals [n |-> numerator, d |-> denominator > 0]  *)
(* in lowest terms, so that a division (by 2, by the pixel scale) is a     *)
(* division and not a truncation.  The rounding error of IEEE doubles is   *)
(* not modelled.                                                           *)
(***************************************************************************)
EXTENDS Integers, Sequences, FiniteSets, TLC

VARIABLES
    room,                 \* layout.room  : [width, height]
    items,                \* layout.items : sequence of FurnitureItem
    attachments,          \* layout.attachments : sequence of WallAttachment
    selectedItemId,       \* layout.selectedItemId (NoId models null)
    selectedAttachmentId, \* layout.selectedAttachmentId (NoId models null)
    isoAngle,             \* the view angle state of the editor
    invalidItems,         \* the displayed invalid-id set
    contextMenu,          \* ThreeScene's wall context menu (<<>> models null)
    isThreeSceneOpen,     \* whether the 3D overlay is mounted
    now,                  \* the millisecond clock read by Date.now()
    viewMode,             \* LayoutEditor's view mode: "2d" or "iso"
    startAbsPos,          \* IsoFurniture's anchor ref (<<>> models null)
    dragNode,             \* the canvas node under a drag and its position
    isDragging,           \* DraggableAttachment's drag flag, as the id it is on
    landing,              \* the landing page's width and height fields
    url,                  \* the layout parameter of the editor's URL
    probe                 \* arguments and result of a pure function under test

sessionVars == <<viewMode, startAbsPos, dragNode, isDragging, landing, url>>

vars == <<room, items, attachments, selectedItemId, selectedAttachmentId,
          isoAngle, invalidItems, contextMenu, isThreeSceneOpen, now, probe,
          sessionVars>>

layoutVars == <<room, items, attachments, selectedItemId, selectedAttachmentId>>

editorVars == <<room, items, attachments, selectedItemId, selectedAttachmentId,
                isoAngle, invalidItems, contextMenu, isThreeSceneOpen, now,
                sessionVars>>

-----------------------------------------------------------------------------
(* Exact rational arithmetic standing for JavaScript number arithmetic.    *)

RECURSIVE GCD(_, _)
GCD(a, b) == IF b = 0 THEN a ELSE GCD(b, a % b)

Abs(i) == IF i < 0 THEN -i ELSE i

\* n/d in lowest terms, d > 0. A division by zero gives what JavaScript gives:
\* 1/0 and -1/0 are Infinity and -Infinity, 0/0 is NaN.
Frac(n, d) ==
    LET s == IF d < 0 THEN -1 ELSE 1
        g == GCD(Abs(n), Abs(d))
    IN  IF g = 0 THEN [n |-> 0, d |-> 0]
        ELSE [n |-> (s * n) \div g, d |-> (s * d) \div g]

R(i) == [n |-> i, d |-> 1]

RAdd(a, b) == Frac(a.n * b.d + b.n * a.d, a.d * b.d)
RSub(a, b) == Frac(a.n * b.d - b.n * a.d, a.d * b.d)
RMul(a, b) == Frac(a.n * b.n, a.d * b.d)
RDiv(a, b) == Frac(a.n * b.d, a.d * b.n)
RNeg(a) == [n |-> -a.n, d |-> a.d]
RLt(a, b) == a.n * b.d < b.n * a.d
RLe(a, b) == a.n * b.d <= b.n * a.d
RAbs(a) == [n |-> Abs(a.n), d |-> a.d]
RMax(a, b) == IF RLt(a, b) THEN b ELSE a
RMin(a, b) == IF RLt(b, a) THEN b ELSE a

\* Math.round: the nearest integer, a tie going towards +Infinity; NaN and
\* the infinities stay
MathRound(a) == IF a.d = 0 THEN a ELSE R((2 * a.n + a.d) \div (2 * a.d))

-----------------------------------------------------------------------------
(* Identifiers.  An id is the decimal string of a millisecond timestamp;   *)
(* the model keeps the timestamp itself (a positive integer).  NoId stands *)
(* for null / undefined.                                                   *)

NoId == 0

-----------------------------------------------------------------------------
(* utils/geometry: the validity engine.                                    *)

SNAP_SIZE == 6
SNAP_THRESHOLD == 2

getItemRect(item) ==
    LET isRotated == item.rotation = 90 \/ item.rotation = 270
    IN  [x |-> item.x,
         y |-> item.y,
         width |-> IF isRotated THEN item.height ELSE item.width,
         height |-> IF isRotated THEN item.width ELSE item.height]

\* a variant that counts touching edges as an overlap
isOverlapping_touching(rect1, rect2) ==
    /\ RLe(rect1.x, RAdd(rect2.x, rect2.width))
    /\ RLe(rect2.x, RAdd(rect1.x, rect1.width))
    /\ RLe(rect1.y, RAdd(rect2.y, rect2.height))
    /\ RLe(rect2.y, RAdd(rect1.y, rect1.height))

isOverlapping(rect1, rect2) ==
    /\ RLt(rect1.x, RAdd(rect2.x, rect2.width))
    /\ RLt(rect2.x, RAdd(rect1.x, rect1.width))
    /\ RLt(rect1.y, RAdd(rect2.y, rect2.height))
    /\ RLt(rect2.y, RAdd(rect1.y, rect1.height))

isOutOfBounds(itemRect, rm) ==
    \/ RLt(itemRect.x, R(0))
    \/ RLt(itemRect.y, R(0))
    \/ RLt(rm.width, RAdd(itemRect.x, itemRect.width))
    \/ RLt(rm.height, RAdd(itemRect.y, itemRect.height))

\* a variant that overrides every entry once a moving rectangle is given
itemRects_anyId(layoutItems, movingItemId, movingItemRect) ==
    [k \in 1..Len(layoutItems) |->
        IF movingItemRect # <<>>
        THEN [id |-> layoutItems[k].id, rect |-> movingItemRect[1]]
        ELSE [id |-> layoutItems[k].id, rect |-> getItemRect(layoutItems[k])]]

\* layoutItems.map(...): movingItemRect is <<>> when absent, <<rect>> when given
itemRects(layoutItems, movingItemId, movingItemRect) ==
    [k \in 1..Len(layoutItems) |->
        IF layoutItems[k].id = movingItemId /\ movingItemRect # <<>>
        THEN [id |-> layoutItems[k].id, rect |-> movingItemRect[1]]
        ELSE [id |-> layoutItems[k].id, rect |-> getItemRect(layoutItems[k])]]

\* the bounds loop: ids added while visiting entries 1..k
RECURSIVE boundsPass(_, _, _)
boundsPass(rects, rm, k) ==
    IF k = 0 THEN {}
    ELSE boundsPass(rects, rm, k - 1) \cup
         (IF isOutOfBounds(rects[k].rect, rm) THEN {rects[k].id} ELSE {})

\* the inner collision loop for a fixed i: j runs from i + 1 to the end
RECURSIVE collideInner(_, _, _)
collideInner(rects, i, j) ==
    IF j > Len(rects) THEN {}
    ELSE (IF isOverlapping(rects[i].rect, rects[j].rect)
          THEN {rects[i].id, rects[j].id} ELSE {})
         \cup collideInner(rects, i, j + 1)

\* the outer collision loop: i runs from the first entry to the end
RECURSIVE collidePass(_, _)
collidePass(rects, i) ==
    IF i > Len(rects) THEN {}
    ELSE collideInner(rects, i, i + 1) \cup collidePass(rects, i + 1)

checkValidity(layoutItems, rm, movingItemId, movingItemRect) ==
    LET rects == itemRects(layoutItems, movingItemId, movingItemRect)
    IN  boundsPass(rects, rm, Len(rects)) \cup collidePass(rects, 1)


-----------------------------------------------------------------------------
(* components/IsoScene.tsx: the view transform.                            *)

toScreen(x, y, z, pixelsPerUnit) ==
    [x |-> RMul(RSub(x, y), pixelsPerUnit),
     y |-> RSub(RDiv(RMul(RAdd(x, y), pixelsPerUnit), R(2)), RMul(z, pixelsPerUnit))]

\* a variant with a sign slip in the 90-degree case
rotatePoint_sign(x, y, angle, roomW, roomH) ==
    CASE angle = 90 -> [x |-> RAdd(roomH, y), y |-> x]
      [] angle = 180 -> [x |-> RSub(roomW, x), y |-> RSub(roomH, y)]
      [] angle = 270 -> [x |-> y, y |-> RSub(roomW, x)]
      [] OTHER -> [x |-> x, y |-> y]

\* a variant after the function's header comment (90: W - y, 270: H - x)
rotatePoint_comment(x, y, angle, roomW, roomH) ==
    CASE angle = 90 -> [x |-> RSub(roomW, y), y |-> x]
      [] angle = 180 -> [x |-> RSub(roomW, x), y |-> RSub(roomH, y)]
      [] angle = 270 -> [x |-> y, y |-> RSub(roomH, x)]
      [] OTHER -> [x |-> x, y |-> y]

rotatePoint(x, y, angle, roomW, roomH) ==
    CASE angle = 90 -> [x |-> RSub(roomH, y), y |-> x]
      [] angle = 180 -> [x |-> RSub(roomW, x), y |-> RSub(roomH, y)]
      [] angle = 270 -> [x |-> y, y |-> RSub(roomW, x)]
      [] OTHER -> [x |-> x, y |-> y]

getRotatedDimensions(w, h, angle) ==
    IF angle = 90 \/ angle = 270 THEN [w |-> h, h |-> w] ELSE [w |-> w, h |-> h]

getWallCoordinates(side, x, y, viewAngle, roomW, roomH) ==
    LET world == CASE side = "front" -> [x |-> x, y |-> R(0)]
                   [] side = "back" -> [x |-> x, y |-> roomH]
                   [] side = "left" -> [x |-> R(0), y |-> x]
                   [] side = "right" -> [x |-> roomW, y |-> x]
        rotated == rotatePoint(world.x, world.y, viewAngle, roomW, roomH)
    IN  [worldX |-> rotated.x, worldY |-> rotated.y, worldZ |-> y]

-----------------------------------------------------------------------------
(* components/IsoScene.tsx: the drag controller of IsoFurniture.           *)

\* a variant that forgets the factor 2 of the vertical screen axis
inverseIso_flat(sx, sy, ppu) ==
    [x |-> RDiv(RAdd(sx, sy), RMul(R(2), ppu)),
     y |-> RDiv(RSub(sy, sx), RMul(R(2), ppu))]

\* "Inverse Iso": screen delta (sx, sy) -> delta in the rotated grid
inverseIso(sx, sy, ppu) ==
    [x |-> RDiv(RAdd(sx, RMul(R(2), sy)), RMul(R(2), ppu)),
     y |-> RDiv(RSub(RMul(R(2), sy), sx), RMul(R(2), ppu))]

\* a variant that applies the forward rotation of a delta at 90 and 270
inverseRotation_forward(dGx, dGy, angle) ==
    CASE angle = 90 -> [x |-> RNeg(dGy), y |-> dGx]
      [] angle = 180 -> [x |-> RNeg(dGx), y |-> RNeg(dGy)]
      [] angle = 270 -> [x |-> dGy, y |-> RNeg(dGx)]
      [] OTHER -> [x |-> dGx, y |-> dGy]

\* "Delta World (Original space) through inverse rotation"
inverseRotation(dGx, dGy, angle) ==
    CASE angle = 90 -> [x |-> dGy, y |-> RNeg(dGx)]
      [] angle = 180 -> [x |-> RNeg(dGx), y |-> RNeg(dGy)]
      [] angle = 270 -> [x |-> RNeg(dGy), y |-> dGx]
      [] OTHER -> [x |-> dGx, y |-> dGy]

\* a variant that also snaps at a distance of exactly the threshold
snapCommit_inclusive(target) ==
    LET snapped == RMul(MathRound(RDiv(target, R(SNAP_SIZE))), R(SNAP_SIZE))
    IN  IF RLe(RAbs(RSub(target, snapped)), R(SNAP_THRESHOLD))
        THEN snapped
        ELSE MathRound(target)

\* the committed coordinate of a candidate: snap to the grid or round
snapCommit(target) ==
    LET snapped == RMul(MathRound(RDiv(target, R(SNAP_SIZE))), R(SNAP_SIZE))
    IN  IF RLt(RAbs(RSub(target, snapped)), R(SNAP_THRESHOLD))
        THEN snapped
        ELSE MathRound(target)

\* the live coordinate of a candidate in dragBoundFunc: snap or keep raw
snapLive(target) ==
    LET snapped == RMul(MathRound(RDiv(target, R(SNAP_SIZE))), R(SNAP_SIZE))
    IN  IF RLt(RAbs(RSub(target, snapped)), R(SNAP_THRESHOLD))
        THEN snapped
        ELSE target

\* IsoFurniture.handleDragEnd: the (x, y) passed to onMove
isoDragEndPosition(item, angle, ppu, sx, sy) ==
    LET dG == inverseIso(sx, sy, ppu)
        dW == inverseRotation(dG.x, dG.y, angle)
    IN  [x |-> snapCommit(RAdd(item.x, dW.x)),
         y |-> snapCommit(RAdd(item.y, dW.y))]

-----------------------------------------------------------------------------
(* The initial editor state: editor/page.tsx defaultLayout and the         *)
(* useState initial values of LayoutEditor.                                *)

defaultLayoutRoom == [width |-> R(120), height |-> R(144)]

EditorMount ==
    /\ room = defaultLayoutRoom
    /\ items = <<>>
    /\ attachments = <<>>
    /\ selectedItemId = NoId
    /\ selectedAttachmentId = NoId
    /\ isoAngle = 0
    /\ invalidItems = {}
    /\ contextMenu = <<>>
    /\ isThreeSceneOpen = FALSE
    /\ now = 1
    /\ viewMode = "iso"
    /\ startAbsPos = <<>>
    /\ dragNode = <<>>
    /\ isDragging = NoId

EditorIdle ==
    /\ EditorMount
    /\ landing = <<>>
    /\ url = <<>>

-----------------------------------------------------------------------------
(* Calls of checkValidity on bounded inputs.                               *)

MaxCoord == 1
ProbeCoords == (-1) .. MaxCoord
ProbeRooms == {[width |-> R(2), height |-> R(2)], [width |-> R(2), height |-> R(3)]}
ProbeFootprints == {<<1, 2>>}
ProbeRotations == {0, 90, 180, 270}
ProbeIds == <<7, 3, 5>>

ProbeItems(id) ==
    {[id |-> id, x |-> R(px), y |-> R(py), width |-> R(f[1]), height |-> R(f[2]),
      rotation |-> rot] :
        px \in ProbeCoords, py \in ProbeCoords, f \in ProbeFootprints,
        rot \in ProbeRotations}

InitValidity ==
    /\ EditorIdle
    /\ probe \in {[op |-> "items", room |-> rm, items |-> <<>>] : rm \in ProbeRooms}

ProbePushItem ==
    /\ probe.op = "items"
    /\ Len(probe.items) < Len(ProbeIds)
    /\ \E it \in ProbeItems(ProbeIds[Len(probe.items) + 1]) :
          probe' = [probe EXCEPT !.items = Append(@, it)]
    /\ UNCHANGED editorVars

ProbeCheckValidity ==
    /\ probe.op = "items"
    /\ probe' = [op |-> "checked", room |-> probe.room, items |-> probe.items,
                 movingId |-> NoId, movingRect |-> <<>>,
                 result |-> checkValidity(probe.items, probe.room, NoId, <<>>)]
    /\ UNCHANGED editorVars

NextValidity == ProbePushItem \/ ProbeCheckValidity

SpecValidity == InitValidity /\ [][NextValidity]_vars


(* ---- C1 ---- *)

\* the effective rectangle of the claim: width and height swapped at 90 / 270
EffW(it) == IF it.rotation \in {90, 270} THEN it.height ELSE it.width
EffH(it) == IF it.rotation \in {90, 270} THEN it.width ELSE it.height

OutsideRoom(it, rm) ==
    \/ RLt(it.x, R(0))
    \/ RLt(it.y, R(0))
    \/ RLt(rm.width, RAdd(it.x, EffW(it)))
    \/ RLt(rm.height, RAdd(it.y, EffH(it)))

\* the extent of the intersection of two effective rectangles on each axis
MeetW(a, b) == RSub(RMin(RAdd(a.x, EffW(a)), RAdd(b.x, EffW(b))), RMax(a.x, b.x))
MeetH(a, b) == RSub(RMin(RAdd(a.y, EffH(a)), RAdd(b.y, EffH(b))), RMax(a.y, b.y))
PositiveAreaMeet(a, b) == RLt(R(0), MeetW(a, b)) /\ RLt(R(0), MeetH(a, b))

FlaggedIds(its, rm) ==
    {its[k].id : k \in {k \in 1..Len(its) :
        \/ OutsideRoom(its[k], rm)
        \/ \E j \in 1..Len(its) : j # k /\ PositiveAreaMeet(its[k], its[j])}}

\* C1: checkValidity(items, room) returns exactly the ids of the items whose
\* effective rectangle leaves the room or has a positive-area intersection
\* with the effective rectangle of another item.
C1_ValidityExact ==
    (probe.op = "checked") =>
        probe.result = FlaggedIds(probe.items, probe.room)

\* C1 witness: three items in the 2 x 3 room; the first is flush against
\* three walls and touches the second along an edge and is not flagged; the
\* second and the third overlap and are both flagged.
C1_Witness ==
    /\ probe.op = "checked"
    /\ probe.room = [width |-> R(2), height |-> R(3)]
    /\ Len(probe.items) = 3
    /\ probe.items[1].x = R(0) /\ probe.items[1].y = R(0)
    /\ probe.items[1].rotation = 90
    /\ probe.items[2].x = R(0) /\ probe.items[2].y = R(1)
    /\ probe.items[2].rotation = 270
    /\ probe.items[3].x = R(1) /\ probe.items[3].y = R(1)
    /\ probe.items[3].rotation = 0
    /\ MeetH(probe.items[1], probe.items[2]) = R(0)
    /\ PositiveAreaMeet(probe.items[2], probe.items[3])
    /\ probe.result = {probe.items[2].id, probe.items[3].id}


-----------------------------------------------------------------------------
(* Calls of checkValidity with a moving item and its hypothetical          *)
(* rectangle, on bounded inputs.                                           *)

ProbeShortLists ==
    {<<>>}
    \cup {<<a>> : a \in ProbeItems(ProbeIds[1])}
    \cup {<<a, b>> : a \in ProbeItems(ProbeIds[1]), b \in ProbeItems(ProbeIds[2])}

ProbeMovingRects ==
    {[x |-> R(px), y |-> R(py), width |-> R(2), height |-> R(1)] :
        px \in ProbeCoords, py \in ProbeCoords}

\* the ids a caller may pass: those of the list, one of no item, undefined
ProbeMovingIds == {ProbeIds[k] : k \in 1..Len(ProbeIds)} \cup {NoId}

InitMoving ==
    /\ EditorIdle
    /\ probe \in {[op |-> "items", room |-> rm, items |-> its] :
                    rm \in ProbeRooms, its \in ProbeShortLists}

ProbeCheckMoving ==
    /\ probe.op = "items"
    /\ \E id \in ProbeMovingIds, mr \in {<<>>} \cup {<<r>> : r \in ProbeMovingRects} :
          probe' = [op |-> "checked", room |-> probe.room, items |-> probe.items,
                    movingId |-> id, movingRect |-> mr,
                    result |-> checkValidity(probe.items, probe.room, id, mr)]
    /\ UNCHANGED editorVars

NextMoving == ProbeCheckMoving

SpecMoving == InitMoving /\ [][NextMoving]_vars

(* ---- C2 ---- *)

\* the list with the item of the given id standing at the rectangle r
WithRect(its, id, r) ==
    [k \in 1..Len(its) |->
        IF its[k].id = id
        THEN [id |-> id, x |-> r.x, y |-> r.y, width |-> r.width,
              height |-> r.height, rotation |-> 0]
        ELSE its[k]]

HasId(its, id) == \E k \in 1..Len(its) : its[k].id = id

\* C2: checkValidity(items, room, movingId, movingRect) is the validity result
\* of the list in which only the item with id movingId has its rectangle
\* replaced by movingRect; with no such item, or no movingRect, it is
\* checkValidity(items, room).
C2_MovingOverride ==
    (probe.op = "checked") =>
        IF probe.movingRect # <<>> /\ HasId(probe.items, probe.movingId)
        THEN probe.result =
                checkValidity(WithRect(probe.items, probe.movingId, probe.movingRect[1]),
                              probe.room, NoId, <<>>)
        ELSE probe.result = checkValidity(probe.items, probe.room, NoId, <<>>)

\* C2 witness: two stored items that are valid where they stand, and a call
\* moving the first onto the second, which flags both.
C2_Witness ==
    /\ probe.op = "checked"
    /\ Len(probe.items) = 2
    /\ probe.movingId = probe.items[1].id
    /\ probe.movingRect # <<>>
    /\ checkValidity(probe.items, probe.room, NoId, <<>>) = {}
    /\ probe.result = {probe.items[1].id, probe.items[2].id}
    /\ ~isOutOfBounds(probe.movingRect[1], probe.room)


-----------------------------------------------------------------------------
(* Applications of rotatePoint on bounded inputs: a room, a view angle and *)
(* a point of the room rectangle, rotated up to four times in succession.  *)

MaxRoomSide == 3
ViewAngles == {0, 90, 180, 270}

\* the points of [0, w] x [0, h] with coordinates in halves
HalfGrid(w, h) ==
    {[x |-> Frac(i, 2), y |-> Frac(j, 2)] : i \in 0..(2 * w), j \in 0..(2 * h)}

RotateInputs ==
    UNION {{[op |-> "point", W |-> wh[1], H |-> wh[2], angle |-> a, p0 |-> pt,
             p |-> pt, k |-> 0] :
                a \in ViewAngles, pt \in HalfGrid(wh[1], wh[2])} :
            wh \in (1..MaxRoomSide) \X (1..MaxRoomSide)}

InitRotate ==
    /\ EditorIdle
    /\ probe \in RotateInputs

ProbeRotatePoint ==
    /\ probe.op = "point"
    /\ probe.k < 4
    /\ probe' = [probe EXCEPT
                   !.p = rotatePoint(probe.p.x, probe.p.y, probe.angle,
                                     R(probe.W), R(probe.H)),
                   !.k = @ + 1]
    /\ UNCHANGED editorVars

NextRotate == ProbeRotatePoint

SpecRotate == InitRotate /\ [][NextRotate]_vars

(* ---- C3 ---- *)

\* C3: the 90-degree view rotation applied four times in succession to a
\* point of the room rectangle returns the point.
C3_FourQuarterTurns ==
    (probe.op = "point" /\ probe.angle = 90 /\ probe.k = 4) => probe.p = probe.p0

\* C3 witness: four quarter turns done in a room that is not square, from a
\* point that every single turn moves.
C3_Witness ==
    /\ probe.op = "point" /\ probe.angle = 90 /\ probe.k = 4
    /\ probe.W # probe.H
    /\ probe.p0 = [x |-> Frac(1, 2), y |-> R(2)]
    /\ rotatePoint(probe.p0.x, probe.p0.y, 90, R(probe.W), R(probe.H)) # probe.p0

(* ---- C4 ---- *)

InRect(pt, w, h) ==
    /\ RLe(R(0), pt.x) /\ RLe(pt.x, w)
    /\ RLe(R(0), pt.y) /\ RLe(pt.y, h)

-----------------------------------------------------------------------------
(* The projection and the drag inversion on bounded inputs.  Two chains:   *)
(*  "delta"  -> toScreen -> "screen" -> inverseIso -> "ground"             *)
(*  "drag"   -> screen delta of a rendered move -> "dragged"               *)
(*           -> inverseIso and inverseRotation -> "recovered"              *)

MaxDelta == 3
ProbeDeltas == {[x |-> Frac(i, 2), y |-> Frac(j, 2)] :
                    i \in (-MaxDelta)..MaxDelta, j \in (-MaxDelta)..MaxDelta}
\* pixelsPerUnit is PIXELS_PER_UNIT * 0.5 with PIXELS_PER_UNIT at most 5
ProbePpus == {Frac(1, 3), R(1), Frac(5, 2)}
ProbeDragRooms == {<<2, 3>>, <<3, 1>>}
ProbeDragPoints(w, h) ==
    {[x |-> R(0), y |-> R(0)], [x |-> Frac(w, 2), y |-> Frac(h, 2)],
     [x |-> R(w), y |-> R(h)], [x |-> Frac(1, 2), y |-> R(1)]}

ProjectInputs ==
    {[op |-> "delta", d |-> dd, ppu |-> pp] : dd \in ProbeDeltas, pp \in ProbePpus}

DragInputs ==
    UNION {{[op |-> "drag", W |-> wh[1], H |-> wh[2], angle |-> a, p |-> pt,
             d |-> dd, ppu |-> pp] :
                a \in ViewAngles, pt \in ProbeDragPoints(wh[1], wh[2]),
                dd \in ProbeDeltas, pp \in ProbePpus} :
            wh \in ProbeDragRooms}

InitProject ==
    /\ EditorIdle
    /\ probe \in ProjectInputs \cup DragInputs

ProbeToScreen ==
    /\ probe.op = "delta"
    /\ probe' = [op |-> "screen", d |-> probe.d, ppu |-> probe.ppu,
                 s |-> toScreen(probe.d.x, probe.d.y, R(0), probe.ppu)]
    /\ UNCHANGED editorVars

ProbeInverseIso ==
    /\ probe.op = "screen"
    /\ probe' = [op |-> "ground", d |-> probe.d, ppu |-> probe.ppu, s |-> probe.s,
                 g |-> inverseIso(probe.s.x, probe.s.y, probe.ppu)]
    /\ UNCHANGED editorVars

\* where IsoFurniture renders a ground point: rotatePoint, then toScreen
renderPoint(x, y, angle, roomW, roomH, ppu) ==
    LET r == rotatePoint(x, y, angle, roomW, roomH)
    IN  toScreen(r.x, r.y, R(0), ppu)

ProbeScreenDelta ==
    /\ probe.op = "drag"
    /\ LET from == renderPoint(probe.p.x, probe.p.y, probe.angle,
                               R(probe.W), R(probe.H), probe.ppu)
           to == renderPoint(RAdd(probe.p.x, probe.d.x), RAdd(probe.p.y, probe.d.y),
                             probe.angle, R(probe.W), R(probe.H), probe.ppu)
       IN  probe' = [op |-> "dragged", W |-> probe.W, H |-> probe.H,
                     angle |-> probe.angle, p |-> probe.p, d |-> probe.d,
                     ppu |-> probe.ppu,
                     s |-> [x |-> RSub(to.x, from.x), y |-> RSub(to.y, from.y)]]
    /\ UNCHANGED editorVars

ProbeDragInverse ==
    /\ probe.op = "dragged"
    /\ LET dG == inverseIso(probe.s.x, probe.s.y, probe.ppu)
       IN  probe' = [op |-> "recovered", W |-> probe.W, H |-> probe.H,
                     angle |-> probe.angle, p |-> probe.p, d |-> probe.d,
                     ppu |-> probe.ppu, s |-> probe.s,
                     w |-> inverseRotation(dG.x, dG.y, probe.angle)]
    /\ UNCHANGED editorVars

NextProject ==
    \/ ProbeToScreen
    \/ ProbeInverseIso
    \/ ProbeScreenDelta
    \/ ProbeDragInverse

SpecProject == InitProject /\ [][NextProject]_vars

(* ---- C5 ---- *)

\* C5: the inverse projection of the drag controller applied to the screen
\* delta toScreen(dx, dy, 0, ppu) yields (dx, dy).
C5_ProjectionRoundTrip ==
    (probe.op = "ground") => probe.g = probe.d

\* C5 witness: a round trip of a displacement with two different non-zero
\* components under a scale that is not 1.
C5_Witness ==
    /\ probe.op = "ground"
    /\ probe.ppu = Frac(1, 3)
    /\ probe.d = [x |-> Frac(3, 2), y |-> R(-1)]
    /\ probe.s # probe.d

(* ---- C6 ---- *)

\* C6: for every view angle, the screen delta between the rendered positions
\* of p and p + d, passed through the inverse projection and the inverse
\* quadrant rotation, is d; so p plus the recovered displacement is p + d.
C6_DragRoundTrip ==
    (probe.op = "recovered") =>
        /\ probe.w = probe.d
        /\ RAdd(probe.p.x, probe.w.x) = RAdd(probe.p.x, probe.d.x)
        /\ RAdd(probe.p.y, probe.w.y) = RAdd(probe.p.y, probe.d.y)

\* C6 witness: a recovered displacement at view angle 270 in a room that is
\* not square, with two different non-zero components.
C6_Witness ==
    /\ probe.op = "recovered"
    /\ probe.angle = 270
    /\ probe.W = 2 /\ probe.H = 3
    /\ probe.d = [x |-> R(1), y |-> Frac(-1, 2)]
    /\ probe.ppu = Frac(5, 2)
    /\ probe.w = probe.d

-----------------------------------------------------------------------------
(* The commit snap of a drag on bounded candidates, one per axis.          *)

MaxCandidate == 13
ProbeCandidates == {Frac(k, 4) : k \in (-4 * MaxCandidate)..(4 * MaxCandidate)}

InitSnap ==
    /\ EditorIdle
    /\ probe \in {[op |-> "candidate", cx |-> a, cy |-> b] :
                    a \in ProbeCandidates, b \in ProbeCandidates}

\* finalX and finalY of handleDragEnd
ProbeSnapCommit ==
    /\ probe.op = "candidate"
    /\ probe' = [op |-> "committed", cx |-> probe.cx, cy |-> probe.cy,
                 finalX |-> snapCommit(probe.cx), finalY |-> snapCommit(probe.cy)]
    /\ UNCHANGED editorVars

NextSnap == ProbeSnapCommit

SpecSnap == InitSnap /\ [][NextSnap]_vars

(* ---- C7 ---- *)

\* the multiples of the grid size around the candidates
GridMultiples ==
    LET span == (MaxCandidate \div SNAP_SIZE) + 1
    IN  {SNAP_SIZE * k : k \in (-span)..span}
Dist(a, b) == RAbs(RSub(a, b))

\* the claim for one axis: candidate c, committed coordinate r
SnapsAsClaimed(c, r) ==
    LET nearest == {m \in GridMultiples :
                      \A m2 \in GridMultiples : RLe(Dist(c, R(m)), Dist(c, R(m2)))}
        within == {m \in nearest : RLt(Dist(c, R(m)), R(SNAP_THRESHOLD))}
    IN  IF within # {}
        THEN \A m \in within : r = R(m)
        ELSE r.d = 1 /\ RLe(Dist(c, r), Frac(1, 2))

\* C7: on each axis the committed coordinate is the nearest multiple of 6
\* when the candidate is strictly within 2 of it, and otherwise the candidate
\* rounded to the nearest integer: 7.5 gives 6, 4.0 gives 4.
C7_SnapCommit ==
    (probe.op = "committed") =>
        /\ SnapsAsClaimed(probe.cx, probe.finalX)
        /\ SnapsAsClaimed(probe.cy, probe.finalY)
        /\ (probe.cx = Frac(15, 2) => probe.finalX = R(6))
        /\ (probe.cy = R(4) => probe.finalY = R(4))

\* C7 witness: the candidate (7.5, 4.0) committed as (6, 4).
C7_Witness ==
    /\ probe.op = "committed"
    /\ probe.cx = Frac(15, 2) /\ probe.cy = R(4)
    /\ probe.finalX = R(6) /\ probe.finalY = R(4)


-----------------------------------------------------------------------------
(* The editor as a state machine: LayoutEditor with the isometric scene    *)
(* (viewMode 'iso', its initial value) and the 3D overlay (ThreeScene).    *)
(* While the overlay is mounted it covers the editor, so the editor's own  *)
(* handlers are enabled only while it is closed.  A furniture item keeps   *)
(* the fields id, x, y, width, height, rotation; a wall attachment keeps   *)
(* id, type, side, x, y, width, height.                                    *)

MaxItems == 1
MaxAttachments == 1
MaxClock == 2

\* the "Queen Bed" entry of FURNITURE_PRESETS
ItemPresets == {[width |-> R(60), height |-> R(80)]}
\* numbers typed into the room size fields
RoomSizeInputs == {60}
WallSides == {"back", "left"}
AttachmentTypes == {"door", "window"}
\* points of a wall hit by a click: distance along the wall and height
WallClickPoints == {[along |-> R(6), up |-> R(40)]}
\* numbers typed into the fields of the attachment property panel
PanelInputs == {10}
\* pointer positions of a 3D drag in the room's frame
PointerMovePoints == {[along |-> R(200), up |-> R(60)]}
\* screen displacements of an isometric drag of an attachment
IsoWallDrags == {[sx |-> R(300), sy |-> R(150)]}
\* PIXELS_PER_UNIT * 0.5 in a window large enough for the cap of 5
isoPixelsPerUnit == Frac(5, 2)

ItemIds == {items[k].id : k \in 1..Len(items)}
AttachmentIds == {attachments[k].id : k \in 1..Len(attachments)}

\* a variant without the validity effect: the displayed set is left as it was
setLayout_noEffect(r, its, atts, selItem, selAtt) ==
    /\ room' = r
    /\ items' = its
    /\ attachments' = atts
    /\ selectedItemId' = selItem
    /\ selectedAttachmentId' = selAtt
    /\ UNCHANGED invalidItems

\* setLayout followed by the validity effect of LayoutEditor
setLayout(r, its, atts, selItem, selAtt) ==
    /\ room' = r
    /\ items' = its
    /\ attachments' = atts
    /\ selectedItemId' = selItem
    /\ selectedAttachmentId' = selAtt
    /\ invalidItems' = checkValidity(its, r, NoId, <<>>)

Init ==
    /\ EditorIdle
    /\ probe = [op |-> "idle"]

Tick ==
    /\ now < MaxClock
    /\ now' = now + 1
    /\ UNCHANGED <<layoutVars, isoAngle, invalidItems, contextMenu,
                   isThreeSceneOpen, probe, sessionVars>>

handleSelect ==
    /\ ~isThreeSceneOpen
    /\ \E id \in ItemIds :
          setLayout(room, items, attachments, id, selectedAttachmentId)
    /\ UNCHANGED <<isoAngle, contextMenu, isThreeSceneOpen, now, probe, sessionVars>>

handleDeselect ==
    /\ ~isThreeSceneOpen
    /\ setLayout(room, items, attachments, NoId, NoId)
    /\ UNCHANGED <<isoAngle, contextMenu, isThreeSceneOpen, now, probe, sessionVars>>

\* a variant that refuses a size under which some item becomes invalid
handleUpdateRoomFrom_blocking(fields) ==
    /\ ~isThreeSceneOpen
    /\ \E v \in RoomSizeInputs :
          LET size == R(IF v > 1 THEN v ELSE 1)
          IN  \/ /\ "width" \in fields
                 /\ checkValidity(items, [room EXCEPT !.width = size], NoId, <<>>) = {}
                 /\ setLayout([room EXCEPT !.width = size], items, attachments,
                              selectedItemId, selectedAttachmentId)
              \/ /\ "height" \in fields
                 /\ checkValidity(items, [room EXCEPT !.height = size], NoId, <<>>) = {}
                 /\ setLayout([room EXCEPT !.height = size], items, attachments,
                              selectedItemId, selectedAttachmentId)
    /\ UNCHANGED <<isoAngle, contextMenu, isThreeSceneOpen, now, probe, sessionVars>>

\* handleUpdateRoom from the room inputs named in fields
handleUpdateRoomFrom(fields) ==
    /\ ~isThreeSceneOpen
    /\ \E v \in RoomSizeInputs :
          LET size == R(IF v > 1 THEN v ELSE 1)
          IN  \/ /\ "width" \in fields
                 /\ setLayout([room EXCEPT !.width = size], items, attachments,
                              selectedItemId, selectedAttachmentId)
              \/ /\ "height" \in fields
                 /\ setLayout([room EXCEPT !.height = size], items, attachments,
                              selectedItemId, selectedAttachmentId)
    /\ UNCHANGED <<isoAngle, contextMenu, isThreeSceneOpen, now, probe, sessionVars>>

handleUpdateRoom == handleUpdateRoomFrom({"width", "height"})

\* handleAddItem while the layout holds fewer than cap items
handleAddItemCapped(cap) ==
    /\ ~isThreeSceneOpen
    /\ Len(items) < cap
    /\ \E preset \in ItemPresets :
          LET newItem == [id |-> now,
                          width |-> preset.width,
                          height |-> preset.height,
                          x |-> RSub(RDiv(room.width, R(2)), RDiv(preset.width, R(2))),
                          y |-> RSub(RDiv(room.height, R(2)), RDiv(preset.height, R(2))),
                          rotation |-> 0]
          IN  setLayout(room, Append(items, newItem), attachments,
                        newItem.id, selectedAttachmentId)
    /\ UNCHANGED <<isoAngle, contextMenu, isThreeSceneOpen, now, probe, sessionVars>>

handleAddItem == handleAddItemCapped(MaxItems)

\* a variant that steps through the four quarter turns
rotateSelected_cycle(its, selId) ==
    IF selId = NoId THEN its
    ELSE [k \in 1..Len(its) |->
             IF its[k].id = selId
             THEN [its[k] EXCEPT !.rotation = (@ + 90) % 360]
             ELSE its[k]]

\* the items of handleRotate for the selection selId (NoId: it returns early)
rotateSelected(its, selId) ==
    IF selId = NoId THEN its
    ELSE [k \in 1..Len(its) |->
             IF its[k].id = selId
             THEN [its[k] EXCEPT !.rotation = IF @ = 0 THEN 90 ELSE 0]
             ELSE its[k]]

handleRotate ==
    /\ ~isThreeSceneOpen
    /\ selectedItemId # NoId
    /\ setLayout(room, rotateSelected(items, selectedItemId),
                 attachments, selectedItemId, selectedAttachmentId)
    /\ UNCHANGED <<isoAngle, contextMenu, isThreeSceneOpen, now, probe, sessionVars>>

\* a variant that removes the item and keeps the selection
handleDelete_keepSelection ==
    /\ ~isThreeSceneOpen
    /\ selectedItemId # NoId
    /\ setLayout(room, SelectSeq(items, LAMBDA it : it.id # selectedItemId),
                 attachments, selectedItemId, selectedAttachmentId)
    /\ UNCHANGED <<isoAngle, contextMenu, isThreeSceneOpen, now, probe, sessionVars>>

handleDelete ==
    /\ ~isThreeSceneOpen
    /\ selectedItemId # NoId
    /\ setLayout(room, SelectSeq(items, LAMBDA it : it.id # selectedItemId),
                 attachments, NoId, selectedAttachmentId)
    /\ UNCHANGED <<isoAngle, contextMenu, isThreeSceneOpen, now, probe, sessionVars>>

handleReset ==
    /\ ~isThreeSceneOpen
    /\ setLayout(room, <<>>, attachments, NoId, selectedAttachmentId)
    /\ UNCHANGED <<isoAngle, contextMenu, isThreeSceneOpen, now, probe, sessionVars>>

\* the "3D" button: setIsThreeSceneOpen(true) mounts ThreeScene
openThreeScene ==
    /\ ~isThreeSceneOpen
    /\ isThreeSceneOpen' = TRUE
    /\ contextMenu' = <<>>
    /\ UNCHANGED <<layoutVars, isoAngle, invalidItems, now, probe, sessionVars>>

\* the "Close" button of ThreeScene; unmounting drops its context menu
onClose ==
    /\ isThreeSceneOpen
    /\ isThreeSceneOpen' = FALSE
    /\ contextMenu' = <<>>
    /\ UNCHANGED <<layoutVars, isoAngle, invalidItems, now, probe, sessionVars>>

-----------------------------------------------------------------------------
(* Wall attachments.                                                       *)

wallLength(side, rm) ==
    IF side = "back" \/ side = "front" THEN rm.width ELSE rm.height

\* { ...att, ...updates }
mergeUpdates(att, updates) ==
    [f \in DOMAIN att |-> IF f \in DOMAIN updates THEN updates[f] ELSE att[f]]

\* the attachments of handleUpdateAttachment(id, updates)
updatedAttachments(id, updates) ==
    [k \in 1..Len(attachments) |->
        IF attachments[k].id = id
        THEN mergeUpdates(attachments[k], updates)
        ELSE attachments[k]]

handleWallClick ==
    /\ isThreeSceneOpen
    /\ \E side \in WallSides, point \in WallClickPoints :
          LET limit == wallLength(side, room)
              wallX == IF RLt(point.along, R(0)) THEN R(0)
                       ELSE IF RLt(limit, point.along) THEN limit
                       ELSE point.along
          IN  contextMenu' = <<[side |-> side, wallX |-> wallX, wallY |-> point.up]>>
    /\ UNCHANGED <<layoutVars, isoAngle, invalidItems, isThreeSceneOpen, now, probe, sessionVars>>

\* handleAddStart and the handleAddAttachment it calls
handleAddStart ==
    /\ isThreeSceneOpen
    /\ contextMenu # <<>>
    /\ Len(attachments) < MaxAttachments
    /\ \E type \in AttachmentTypes :
          LET menu == contextMenu[1]
              width == R(IF type = "door" THEN 36 ELSE IF type = "window" THEN 48 ELSE 24)
              height == R(IF type = "door" THEN 80 ELSE IF type = "window" THEN 48 ELSE 4)
              finalY == IF type = "door" THEN R(0)
                        ELSE RMax(R(0), RSub(menu.wallY, RDiv(height, R(2))))
              attachment == [id |-> now,
                             type |-> type,
                             side |-> menu.side,
                             x |-> RSub(menu.wallX, RDiv(width, R(2))),
                             y |-> finalY,
                             width |-> width,
                             height |-> height]
          IN  setLayout(room, items, Append(attachments, attachment),
                        NoId, attachment.id)
    /\ contextMenu' = <<>>
    /\ UNCHANGED <<isoAngle, isThreeSceneOpen, now, probe, sessionVars>>

\* the "Cancel" entry of the context menu
cancelContextMenu ==
    /\ isThreeSceneOpen
    /\ contextMenu # <<>>
    /\ contextMenu' = <<>>
    /\ UNCHANGED <<layoutVars, isoAngle, invalidItems, isThreeSceneOpen, now, probe, sessionVars>>

\* handlePointerMissed: closes the menu and calls onSelectAttachment(null)
handlePointerMissed ==
    /\ isThreeSceneOpen
    /\ contextMenu' = <<>>
    /\ setLayout(room, items, attachments, selectedItemId, NoId)
    /\ UNCHANGED <<isoAngle, isThreeSceneOpen, now, probe, sessionVars>>

\* handleSelectAttachment(id) with an id: a click on an attachment in the
\* isometric scene, or handlePointerDown on it in the 3D overlay
handleSelectAttachment ==
    /\ \E id \in AttachmentIds :
          setLayout(room, items, attachments, NoId, id)
    /\ UNCHANGED <<isoAngle, contextMenu, isThreeSceneOpen, now, probe, sessionVars>>

\* the Width and Elevation fields of the attachment property panel
propertyPanelInput ==
    /\ isThreeSceneOpen
    /\ selectedAttachmentId \in AttachmentIds
    /\ \E v \in PanelInputs :
          \E updates \in {[width |-> R(v)], [y |-> R(v)]} :
              setLayout(room, items, updatedAttachments(selectedAttachmentId, updates),
                        selectedItemId, selectedAttachmentId)
    /\ UNCHANGED <<isoAngle, contextMenu, isThreeSceneOpen, now, probe, sessionVars>>

\* the Delete button of the property panel: handleDeleteAttachment
handleDeleteAttachment ==
    /\ isThreeSceneOpen
    /\ selectedAttachmentId \in AttachmentIds
    /\ setLayout(room, items,
                 SelectSeq(attachments, LAMBDA att : att.id # selectedAttachmentId),
                 selectedItemId, NoId)
    /\ UNCHANGED <<isoAngle, contextMenu, isThreeSceneOpen, now, probe, sessionVars>>

\* DraggableAttachment: handlePointerDown selects, handlePointerMove updates
handlePointerMove ==
    /\ isThreeSceneOpen
    /\ \E k \in 1..Len(attachments), localPos \in PointerMovePoints :
          LET att == attachments[k]
              wallLimit == wallLength(att.side, room)
              rawX == RSub(localPos.along, RDiv(att.width, R(2)))
              rawY == RSub(localPos.up, RDiv(att.height, R(2)))
              lowX == IF RLt(rawX, R(0)) THEN R(0) ELSE rawX
              newWallX == IF RLt(RSub(wallLimit, att.width), lowX)
                          THEN RSub(wallLimit, att.width) ELSE lowX
              newWallY == IF att.type = "door" THEN R(0)
                          ELSE IF RLt(rawY, R(0)) THEN R(0) ELSE rawY
          IN  setLayout(room, items,
                        updatedAttachments(att.id, [x |-> newWallX, y |-> newWallY]),
                        NoId, att.id)
    /\ UNCHANGED <<isoAngle, contextMenu, isThreeSceneOpen, now, probe, sessionVars>>

\* the updates IsoWallAttachment.handleDragEnd passes to onUpdate for a node
\* released at the screen offset (sx, sy)
isoWallDragUpdates(attachment, sx, sy, ppu, rm) ==
    LET dG == inverseIso(sx, sy, ppu)
        alongX == attachment.side = "front" \/ attachment.side = "back"
        dWallX == IF alongX THEN dG.x ELSE dG.y
        dWallY == IF attachment.type = "door" THEN R(0)
                  ELSE RDiv(RNeg(sy), ppu)
        limit == IF attachment.side = "left" \/ attachment.side = "right"
                 THEN rm.height ELSE rm.width
        newX == RMax(R(0), RMin(limit, RAdd(attachment.x, dWallX)))
        newY == IF attachment.type = "door" THEN R(0)
                ELSE RMax(R(0), RMin(R(96), RAdd(attachment.y, dWallY)))
    IN  [x |-> newX, y |-> newY]

\* IsoWallAttachment: handleDragStart selects, handleDragEnd updates
isoWallDragEnd ==
    /\ ~isThreeSceneOpen
    /\ \E k \in 1..Len(attachments), s \in IsoWallDrags :
          LET attachment == attachments[k]
          IN  setLayout(room, items,
                        updatedAttachments(attachment.id,
                            isoWallDragUpdates(attachment, s.sx, s.sy,
                                               isoPixelsPerUnit, room)),
                        NoId, attachment.id)
    /\ UNCHANGED <<isoAngle, contextMenu, isThreeSceneOpen, now, probe, sessionVars>>

Next ==
    \/ Tick
    \/ handleSelect
    \/ handleDeselect
    \/ handleUpdateRoom
    \/ handleAddItem
    \/ handleRotate
    \/ handleDelete
    \/ handleReset
    \/ openThreeScene
    \/ onClose
    \/ handleWallClick
    \/ handleAddStart
    \/ cancelContextMenu
    \/ handlePointerMissed
    \/ handleSelectAttachment
    \/ propertyPanelInput
    \/ handleDeleteAttachment
    \/ handlePointerMove
    \/ isoWallDragEnd

Spec == Init /\ [][Next]_vars

(* ---- C8 ---- *)

\* C8: in every reachable state every attachment of kind door has
\* elevation y = 0, whichever update path (isometric drag, 3D drag,
\* property panel) last wrote it.
C8_DoorPinned ==
    \A k \in 1..Len(attachments) :
        attachments[k].type = "door" => attachments[k].y = R(0)

\* C8 witness: a door whose elevation is the number typed into the
\* Elevation field of the property panel.
C8_Witness ==
    /\ isThreeSceneOpen
    /\ \E k \in 1..Len(attachments) :
          /\ attachments[k].type = "door"
          /\ attachments[k].id = selectedAttachmentId
          /\ attachments[k].y = R(10)

(* ---- C9 ---- *)

\* C9: in every reachable state every wall attachment lies on its wall:
\* 0 <= x <= wallLength - width, with wallLength the room's width for the
\* front and back walls and its height for the left and right walls, and
\* y >= 0.
C9_AttachmentOnWall ==
    \A k \in 1..Len(attachments) :
        LET att == attachments[k]
        IN  /\ RLe(R(0), att.x)
            /\ RLe(att.x, RSub(wallLength(att.side, room), att.width))
            /\ RLe(R(0), att.y)

\* C9 witness: an attachment just added by handleAddStart that starts
\* before the beginning of its wall.
C9_Witness ==
    /\ Len(attachments) = 1
    /\ attachments[1].id = selectedAttachmentId
    /\ attachments[1].type = "door"
    /\ attachments[1].x = R(-12)
    /\ room = defaultLayoutRoom

(* ---- C10 ---- *)

\* C10: in every reachable state at most one of selectedItemId and
\* selectedAttachmentId is non-null.
C10_OneSelection ==
    selectedItemId = NoId \/ selectedAttachmentId = NoId

\* C10 witness: an item and an attachment of the layout selected at once.
C10_Witness ==
    /\ selectedItemId \in ItemIds
    /\ selectedAttachmentId \in AttachmentIds

-----------------------------------------------------------------------------
(* The furniture session of LayoutEditor: the commands on items in both    *)
(* views, with the drag gestures of the flat and the isometric scene.      *)
(* The window is large enough for the scale cap of 5 pixels per unit.      *)

MaxLayoutItems == 2
MaxDuplicateCoord == 37

windowSize == [width |-> 1920, height |-> 1080]
PIXELS_PER_UNIT == R(5)
stageCenter == [x |-> Frac(windowSize.width, 2), y |-> Frac(windowSize.height, 2)]

\* the absolute position of the parent of the flat items: group + content offset
parentAbs(rm) ==
    [x |-> RAdd(stageCenter.x, RNeg(RDiv(RMul(rm.width, PIXELS_PER_UNIT), R(2)))),
     y |-> RAdd(stageCenter.y, RNeg(RDiv(RMul(rm.height, PIXELS_PER_UNIT), R(2))))]

\* step 5 of IsoFurniture.dragBoundFunc: world delta to grid delta
forwardRotation(dWx, dWy, angle) ==
    CASE angle = 90 -> [x |-> RNeg(dWy), y |-> dWx]
      [] angle = 180 -> [x |-> RNeg(dWx), y |-> RNeg(dWy)]
      [] angle = 270 -> [x |-> dWy, y |-> RNeg(dWx)]
      [] OTHER -> [x |-> dWx, y |-> dWy]

\* IsoFurniture.dragBoundFunc: the absolute position the node is held at
isoDragBoundFunc(item, angle, ppu, anchor, pos) ==
    IF anchor = <<>> THEN pos
    ELSE LET sx == RSub(pos.x, anchor[1].x)
             sy == RSub(pos.y, anchor[1].y)
             dG == inverseIso(sx, sy, ppu)
             dW == inverseRotation(dG.x, dG.y, angle)
             finalX == snapLive(RAdd(item.x, dW.x))
             finalY == snapLive(RAdd(item.y, dW.y))
             fG == forwardRotation(RSub(finalX, item.x), RSub(finalY, item.y), angle)
             finalSx == RMul(RSub(fG.x, fG.y), ppu)
             finalSy == RDiv(RMul(RAdd(fG.x, fG.y), ppu), R(2))
         IN  [x |-> RAdd(anchor[1].x, finalSx), y |-> RAdd(anchor[1].y, finalSy)]

\* the dragBoundFunc of a flat item: snap or keep the raw position
flatDragBoundFunc(rm, mode, pos) ==
    IF mode = "iso" THEN pos
    ELSE LET p == parentAbs(rm)
             rawX == RDiv(RSub(pos.x, p.x), PIXELS_PER_UNIT)
             rawY == RDiv(RSub(pos.y, p.y), PIXELS_PER_UNIT)
         IN  [x |-> RAdd(p.x, RMul(snapLive(rawX), PIXELS_PER_UNIT)),
              y |-> RAdd(p.y, RMul(snapLive(rawY), PIXELS_PER_UNIT))]

\* the first item with the given id, as Array.prototype.find returns it
findItem(its, id) ==
    LET hits == {k \in 1..Len(its) : its[k].id = id}
    IN  IF hits = {} THEN <<>>
        ELSE <<its[CHOOSE k \in hits : \A j \in hits : k <= j]>>

\* a variant that falls back to the first item when no id matches
moveItem_orFirst(its, id, x, y) ==
    [k \in 1..Len(its) |->
        IF its[k].id = id \/ (k = 1 /\ \A j \in 1..Len(its) : its[j].id # id)
        THEN [its[k] EXCEPT !.x = x, !.y = y]
        ELSE its[k]]

\* items.map(i => i.id === id ? { ...i, x, y } : i)
moveItem(its, id, x, y) ==
    [k \in 1..Len(its) |->
        IF its[k].id = id THEN [its[k] EXCEPT !.x = x, !.y = y] ELSE its[k]]


handleDuplicate ==
    /\ dragNode = <<>>
    /\ selectedItemId # NoId
    /\ findItem(items, selectedItemId) # <<>>
    /\ Len(items) < MaxLayoutItems
    /\ RLe(RAdd(findItem(items, selectedItemId)[1].x, R(5)), R(MaxDuplicateCoord))
    /\ RLe(RAdd(findItem(items, selectedItemId)[1].y, R(5)), R(MaxDuplicateCoord))
    /\ LET item == findItem(items, selectedItemId)[1]
           newItem == [item EXCEPT !.id = now,
                                   !.x = RAdd(item.x, R(5)),
                                   !.y = RAdd(item.y, R(5))]
       IN  setLayout(room, Append(items, newItem), attachments,
                     newItem.id, selectedAttachmentId)
    /\ UNCHANGED <<isoAngle, contextMenu, isThreeSceneOpen, now, probe, sessionVars>>

\* the world points the pointer carries the grabbed corner of an item to
DropTargets == {[x |-> Frac(187, 2), y |-> R(32)]}
ItemUpdates == {[width |-> 130]}

\* a link shared from an earlier session: one bed across the right wall
SharedLayouts ==
    {[room |-> defaultLayoutRoom,
      items |-> <<[id |-> 9, width |-> R(60), height |-> R(80),
                   x |-> R(94), y |-> R(32), rotation |-> 0]>>,
      attachments |-> <<>>]}

\* JavaScript values of a decoded layout parameter. Numbers are the rationals
\* of the model; every other value carries its kind, containers their content.
JsUndefined == [kind |-> "undefined"]
JsNull == [kind |-> "null"]
JsText == [kind |-> "string", value |-> <<>>]
JsObject(fields) == [kind |-> "object", value |-> fields]
JsArray(elements) == [kind |-> "array", value |-> elements]

\* a number is a record of numerator and denominator
isNumber(v) == DOMAIN v = {"n", "d"}

\* the truthiness that the test !data.room || !data.items relies on
truthy(v) ==
    IF isNumber(v) THEN v # R(0)
    ELSE v.kind \in {"string", "object", "array"}

\* data.name on a value that is neither null nor undefined
getProp(data, name) ==
    IF isNumber(data) THEN JsUndefined
    ELSE IF data.kind = "object" /\ name \in DOMAIN data.value
         THEN data.value[name]
         ELSE JsUndefined

\* the content of a container, a primitive as it is
jsValue(v) == IF isNumber(v) \/ v.kind \in {"null", "undefined"} THEN v ELSE v.value

\* serializeLayout: the transport string of the data object with room, items
\* and attachments; the selection is not part of the data
serializeLayout(layout) ==
    [text |-> "json",
     data |-> JsObject(
        [room |-> JsObject(layout.room),
         items |-> JsArray([k \in 1..Len(layout.items) |->
                      JsObject([id |-> layout.items[k].id,
                                width |-> layout.items[k].width,
                                height |-> layout.items[k].height,
                                x |-> layout.items[k].x,
                                y |-> layout.items[k].y,
                                rotation |-> layout.items[k].rotation])]),
         attachments |-> JsArray([k \in 1..Len(layout.attachments) |->
                            JsObject(layout.attachments[k])])])]

\* the elements of data.items and data.attachments as the editor reads them
jsElements(v) ==
    IF isNumber(v) \/ v.kind # "array" THEN jsValue(v)
    ELSE [k \in 1..Len(v.value) |-> jsValue(v.value[k])]

\* deserializeLayout: <<>> is null. A string that does not decode or parse
\* throws inside the try block, and so does data.room on the value null.
deserializeLayout(encoded) ==
    IF encoded.text # "json" THEN <<>>
    ELSE LET data == encoded.data
         IN  IF ~isNumber(data) /\ data.kind = "null" THEN <<>>
             ELSE IF \/ ~truthy(getProp(data, "room"))
                     \/ ~truthy(getProp(data, "items")) THEN <<>>
             ELSE <<[room |-> jsValue(getProp(data, "room")),
                     items |-> jsElements(getProp(data, "items")),
                     attachments |->
                        IF truthy(getProp(data, "attachments"))
                        THEN jsElements(getProp(data, "attachments"))
                        ELSE <<>>,
                     selectedItemId |-> NoId,
                     selectedAttachmentId |-> NoId]>>

\* the mount effect "Initialize from URL if present"
loadFromUrl ==
    /\ url # <<>>
    /\ LET loadedLayout == deserializeLayout(url[1])
       IN  IF loadedLayout = <<>>
           THEN UNCHANGED <<layoutVars, invalidItems>>
           ELSE setLayout(loadedLayout[1].room, loadedLayout[1].items,
                          loadedLayout[1].attachments,
                          loadedLayout[1].selectedItemId,
                          loadedLayout[1].selectedAttachmentId)
    /\ url' = <<>>
    /\ UNCHANGED <<isoAngle, contextMenu, isThreeSceneOpen, now, probe, viewMode,
                   startAbsPos, dragNode, isDragging, landing>>

setViewMode ==
    /\ dragNode = <<>>
    /\ \E mode \in {"2d", "iso"} : viewMode' = mode
    /\ UNCHANGED <<layoutVars, isoAngle, invalidItems, contextMenu,
                   isThreeSceneOpen, now, probe, startAbsPos, dragNode,
                   isDragging, landing, url>>

\* the size inputs of the edit panel of the selected item
handleUpdateItem ==
    /\ dragNode = <<>>
    /\ findItem(items, selectedItemId) # <<>>
    /\ \E updates \in ItemUpdates :
          LET size == R(IF updates.width > 1 THEN updates.width ELSE 1)
              id == findItem(items, selectedItemId)[1].id
          IN  setLayout(room,
                        [k \in 1..Len(items) |->
                            IF items[k].id = id
                            THEN [items[k] EXCEPT !.width = size]
                            ELSE items[k]],
                        attachments, selectedItemId, selectedAttachmentId)
    /\ UNCHANGED <<isoAngle, contextMenu, isThreeSceneOpen, now, probe, sessionVars>>

\* IsoFurniture onDragStart: capture the anchor and select the item
isoDragStart ==
    /\ viewMode = "iso"
    /\ dragNode = <<>>
    /\ \E k \in 1..Len(items) :
          /\ startAbsPos' = <<stageCenter>>
          /\ dragNode' = <<[id |-> items[k].id, index |-> k, moved |-> FALSE,
                          x |-> R(0), y |-> R(0)]>>
          /\ setLayout(room, items, attachments, items[k].id, selectedAttachmentId)
    /\ UNCHANGED <<isoAngle, contextMenu, isThreeSceneOpen, now, probe, viewMode,
                   isDragging, landing, url>>

\* a drag-move sample in the isometric view: only dragBoundFunc runs
isoDragMove ==
    /\ viewMode = "iso"
    /\ dragNode # <<>>
    /\ \E t \in DropTargets :
          LET item == items[dragNode[1].index]
              from == renderPoint(item.x, item.y, isoAngle, room.width, room.height,
                                  isoPixelsPerUnit)
              to == renderPoint(t.x, t.y, isoAngle, room.width, room.height,
                                isoPixelsPerUnit)
              pos == [x |-> RAdd(startAbsPos[1].x, RSub(to.x, from.x)),
                      y |-> RAdd(startAbsPos[1].y, RSub(to.y, from.y))]
              held == isoDragBoundFunc(item, isoAngle, isoPixelsPerUnit,
                                       startAbsPos, pos)
          IN  dragNode' = <<[dragNode[1] EXCEPT !.moved = TRUE,
                                                !.x = RSub(held.x, stageCenter.x),
                                                !.y = RSub(held.y, stageCenter.y)]>>
    /\ UNCHANGED <<layoutVars, isoAngle, invalidItems, contextMenu,
                   isThreeSceneOpen, now, probe, viewMode, startAbsPos,
                   isDragging, landing, url>>

\* IsoFurniture.handleDragEnd with the onItemMove of LayoutEditor
isoDragEnd ==
    /\ viewMode = "iso"
    /\ dragNode # <<>>
    /\ \E final \in {isoDragEndPosition(items[dragNode[1].index], isoAngle,
                                         isoPixelsPerUnit,
                                         dragNode[1].x, dragNode[1].y)} :
          setLayout(room, moveItem(items, dragNode[1].id, final.x, final.y),
                    attachments, selectedItemId, selectedAttachmentId)
    /\ startAbsPos' = <<>>
    /\ dragNode' = <<>>
    /\ UNCHANGED <<isoAngle, contextMenu, isThreeSceneOpen, now, probe, viewMode,
                   isDragging, landing, url>>

\* the start of a drag of a flat item: no handler is attached to it
flatDragStart ==
    /\ viewMode = "2d"
    /\ dragNode = <<>>
    /\ \E k \in 1..Len(items) :
          dragNode' = <<[id |-> items[k].id, index |-> k, moved |-> FALSE,
                         x |-> RMul(items[k].x, PIXELS_PER_UNIT),
                         y |-> RMul(items[k].y, PIXELS_PER_UNIT)]>>
    /\ UNCHANGED <<layoutVars, isoAngle, invalidItems, contextMenu,
                   isThreeSceneOpen, now, probe, viewMode, startAbsPos,
                   isDragging, landing, url>>

\* the snapped position handleDragMove and handleDragEnd read off the node
flatFinal(node) ==
    [x |-> snapCommit(RDiv(node.x, PIXELS_PER_UNIT)),
     y |-> snapCommit(RDiv(node.y, PIXELS_PER_UNIT))]

\* a drag-move sample in the flat view: dragBoundFunc, then handleDragMove
handleDragMove ==
    /\ viewMode = "2d"
    /\ dragNode # <<>>
    /\ \E t \in DropTargets :
          LET p == parentAbs(room)
              pos == [x |-> RAdd(p.x, RMul(t.x, PIXELS_PER_UNIT)),
                      y |-> RAdd(p.y, RMul(t.y, PIXELS_PER_UNIT))]
              held == flatDragBoundFunc(room, viewMode, pos)
              node == [dragNode[1] EXCEPT !.moved = TRUE,
                                          !.x = RSub(held.x, p.x),
                                          !.y = RSub(held.y, p.y)]
              final == flatFinal(node)
              movingItem == findItem(items, node.id)
          IN  /\ dragNode' = <<node>>
              /\ IF movingItem = <<>>
                 THEN UNCHANGED invalidItems
                 ELSE LET isRotated == movingItem[1].rotation \in {90, 270}
                          movingRect ==
                              [x |-> final.x, y |-> final.y,
                               width |-> IF isRotated THEN movingItem[1].height
                                         ELSE movingItem[1].width,
                               height |-> IF isRotated THEN movingItem[1].width
                                          ELSE movingItem[1].height]
                      IN  invalidItems' =
                              checkValidity(items, room, node.id, <<movingRect>>)
    /\ UNCHANGED <<layoutVars, isoAngle, contextMenu, isThreeSceneOpen, now, probe,
                   viewMode, startAbsPos, isDragging, landing, url>>

\* handleDragEnd of a flat item: commit the snapped position
handleDragEnd ==
    /\ viewMode = "2d"
    /\ dragNode # <<>>
    /\ \E final \in {flatFinal(dragNode[1])} :
          setLayout(room, moveItem(items, dragNode[1].id, final.x, final.y),
                    attachments, selectedItemId, selectedAttachmentId)
    /\ dragNode' = <<>>
    /\ UNCHANGED <<isoAngle, contextMenu, isThreeSceneOpen, now, probe, viewMode,
                   startAbsPos, isDragging, landing, url>>

\* the pointer is free and the mount effects have run
PointerFree == dragNode = <<>> /\ url = <<>>

NextItems ==
    \/ Tick
    \/ loadFromUrl
    \/ PointerFree /\ setViewMode
    \/ PointerFree /\ handleSelect
    \/ PointerFree /\ handleDeselect
    \/ PointerFree /\ handleUpdateRoomFrom({"width"})
    \/ PointerFree /\ handleAddItemCapped(MaxLayoutItems)
    \/ PointerFree /\ handleDuplicate
    \/ PointerFree /\ handleUpdateItem
    \/ PointerFree /\ handleRotate
    \/ PointerFree /\ handleDelete
    \/ PointerFree /\ handleReset
    \/ PointerFree /\ isoDragStart
    \/ isoDragMove
    \/ isoDragEnd
    \/ PointerFree /\ flatDragStart
    \/ handleDragMove
    \/ handleDragEnd

\* the editor page opened directly or through a shared link
InitItems ==
    /\ EditorMount
    /\ landing = <<>>
    /\ url \in {<<>>} \cup {<<serializeLayout(shared)>> : shared \in SharedLayouts}
    /\ probe = [op |-> "idle"]

SpecItems == InitItems /\ [][NextItems]_vars

(* ---- C11 ---- *)

\* the entries of a sequence carry pairwise distinct ids
DistinctIds(seq) == \A j, k \in 1..Len(seq) : seq[j].id = seq[k].id => j = k

\* C11: after any sequence of creation commands, at any timing, the ids of
\* the items are pairwise distinct and the ids of the attachments are
\* pairwise distinct.
C11_UniqueIds == DistinctIds(items) /\ DistinctIds(attachments)

\* two items created within the same millisecond carry the same id
C11_Witness ==
    /\ Len(items) = 2
    /\ items[1].id = items[2].id
    /\ items[1].id = now

-----------------------------------------------------------------------------
(* Calls of onItemMove and handleUpdateAttachment with ids that are, or    *)
(* are not, in the layout.                                                 *)

FrameIds == {1, 2, 3, 4}
FrameMoves == {[x |-> R(12), y |-> R(36)]}
FrameUpdates == {[x |-> R(24)], [width |-> R(10)]}

frameBed(id) ==
    [id |-> id, width |-> R(60), height |-> R(80), x |-> R(30), y |-> R(32),
     rotation |-> 0]

frameDoor ==
    [id |-> 3, type |-> "door", side |-> "back", x |-> R(6), y |-> R(0),
     width |-> R(36), height |-> R(80)]

\* the LayoutState as one value
layoutState ==
    [room |-> room, items |-> items, attachments |-> attachments,
     selectedItemId |-> selectedItemId,
     selectedAttachmentId |-> selectedAttachmentId]

InitFrame ==
    /\ room = defaultLayoutRoom
    /\ items \in {<<>>, <<frameBed(1)>>, <<frameBed(1), frameBed(2)>>}
    /\ attachments \in {<<>>, <<frameDoor>>}
    /\ selectedItemId \in {NoId} \cup {items[k].id : k \in 1..Len(items)}
    /\ selectedAttachmentId \in {NoId} \cup {attachments[k].id : k \in 1..Len(attachments)}
    /\ selectedItemId = NoId \/ selectedAttachmentId = NoId
    /\ invalidItems = checkValidity(items, room, NoId, <<>>)
    /\ isoAngle = 0
    /\ contextMenu = <<>>
    /\ isThreeSceneOpen = FALSE
    /\ now = 5
    /\ viewMode = "iso"
    /\ startAbsPos = <<>>
    /\ dragNode = <<>>
    /\ isDragging = NoId
    /\ landing = <<>>
    /\ url = <<>>
    /\ probe = [op |-> "idle"]

\* onItemMove(id, x, y) of the IsoScene mount
onItemMove ==
    /\ \E id \in FrameIds, to \in FrameMoves :
          /\ setLayout(room, moveItem(items, id, to.x, to.y), attachments,
                       selectedItemId, selectedAttachmentId)
          /\ probe' = [op |-> "moveItem", id |-> id, before |-> layoutState]
    /\ UNCHANGED <<isoAngle, contextMenu, isThreeSceneOpen, now, sessionVars>>

\* handleUpdateAttachment(id, updates)
handleUpdateAttachment ==
    /\ \E id \in FrameIds, updates \in FrameUpdates :
          /\ setLayout(room, items, updatedAttachments(id, updates),
                       selectedItemId, selectedAttachmentId)
          /\ probe' = [op |-> "updateAttachment", id |-> id, before |-> layoutState]
    /\ UNCHANGED <<isoAngle, contextMenu, isThreeSceneOpen, now, sessionVars>>

NextFrame == onItemMove \/ handleUpdateAttachment

SpecFrame == InitFrame /\ [][NextFrame]_vars

(* ---- C12 ---- *)

\* C12: moveItem and updateAttachment called with an id that is not present
\* in the layout leave the room, the item list, the attachment list and both
\* selection fields unchanged.
C12_UnknownIdNoOp ==
    /\ (/\ probe.op = "moveItem"
        /\ \A k \in 1..Len(probe.before.items) : probe.before.items[k].id # probe.id)
       => layoutState = probe.before
    /\ (/\ probe.op = "updateAttachment"
        /\ \A k \in 1..Len(probe.before.attachments) :
              probe.before.attachments[k].id # probe.id)
       => layoutState = probe.before

\* a move addressed to the id of the door in a layout that holds a bed and a
\* door; the bed has been moved by an earlier call
C12_Witness ==
    /\ probe.op = "moveItem"
    /\ probe.id = 3
    /\ Len(items) >= 1
    /\ Len(attachments) = 1
    /\ items[1].x = R(12)
    /\ layoutState = probe.before

(* ---- C13 ---- *)

\* C13: whenever no drag-move hypothetical is active (no drag of a flat item
\* is in progress), the displayed invalid-id set equals checkValidity of the
\* current items and room.
C13_ValidityFresh ==
    ~(viewMode = "2d" /\ dragNode # <<>>)
        => invalidItems = checkValidity(items, room, NoId, <<>>)

\* a flat drag has carried the item created at time 1 across the right wall
\* and has been committed: the item is flagged
C13_Witness ==
    /\ viewMode = "2d"
    /\ dragNode = <<>>
    /\ \E k \in 1..Len(items) :
          /\ items[k].id = 1
          /\ items[k].x = R(94)
          /\ items[k].id \in invalidItems

(* ---- C14 ---- *)

\* the rectangle of the drag in progress: the snapped candidate position
\* with the effective footprint of the dragged item
DragCandidate ==
    LET node == dragNode[1]
        item == items[node.index]
        final == IF viewMode = "iso"
                 THEN isoDragEndPosition(item, isoAngle, isoPixelsPerUnit,
                                         node.x, node.y)
                 ELSE flatFinal(node)
    IN  [getItemRect(item) EXCEPT !.x = final.x, !.y = final.y]

\* C14: after every drag-move sample, in the flat and in the isometric
\* view, the displayed invalid-id set equals checkValidity(items, room,
\* draggedId, rect) for the snapped candidate rectangle of the dragged item.
C14_LiveFeedback ==
    (dragNode # <<>> /\ dragNode[1].moved)
        => invalidItems = checkValidity(items, room, dragNode[1].id, <<DragCandidate>>)

\* an isometric drag holds an item across the right wall and nothing is flagged
C14_Witness ==
    /\ viewMode = "iso"
    /\ dragNode # <<>>
    /\ dragNode[1].moved
    /\ invalidItems = {}
    /\ dragNode[1].id \in checkValidity(items, room, dragNode[1].id, <<DragCandidate>>)

(* ---- C15 ---- *)

\* C15: drag start and every drag-move sample leave the LayoutState (room,
\* items, attachments, selectedItemId, selectedAttachmentId) as it was: a
\* step that ends with a drag in progress changes none of the five fields.
C15_DragStartFrame == [][dragNode' # <<>> => layoutState' = layoutState]_vars

\* an isometric drag has just started on the first of two items and that
\* item is the selected one
C15_Witness ==
    /\ viewMode = "iso"
    /\ dragNode # <<>>
    /\ ~dragNode[1].moved
    /\ startAbsPos # <<>>
    /\ Len(items) = 2
    /\ items[1].id # items[2].id
    /\ dragNode[1].index = 1
    /\ selectedItemId = items[1].id

(* ---- C16 ---- *)

\* the items after the one moveItem of the claim: the dragged entry at the
\* snapped candidate, every other entry as it was
OnlyDraggedMoved ==
    [items EXCEPT ![dragNode[1].index].x = DragCandidate.x,
                  ![dragNode[1].index].y = DragCandidate.y]

\* C16: a furniture drag goes idle -> dragging -> idle; the anchor is set
\* exactly while an isometric drag is in progress; the drag-end step sets the
\* dragged item's (x, y) to the snapped candidate, changes no other item and
\* no other LayoutState field, and clears the anchor.
C16_DragGesture ==
    [][/\ (startAbsPos' # <<>>) = (dragNode' # <<>> /\ viewMode' = "iso")
       /\ (dragNode # <<>> /\ dragNode' = <<>>)
             => /\ items' = OnlyDraggedMoved
                /\ layoutState' = [layoutState EXCEPT !.items = OnlyDraggedMoved]
                /\ startAbsPos' = <<>>]_vars

\* two items that carry the same id lie on the drop target after a drag of
\* one of them
C16_Witness ==
    /\ dragNode = <<>>
    /\ startAbsPos = <<>>
    /\ Len(items) = 2
    /\ items[1].id = items[2].id
    /\ items[1].x = R(94)
    /\ items[2].x = R(94)

-----------------------------------------------------------------------------
(* The pointer gesture on a wall attachment in the 3D viewer.              *)
(* DraggableAttachment.tsx defines the component twice; which definition   *)
(* the build takes is drawn in the initial state. The attachments are on   *)
(* the back wall, whose drag plane is z = const: a pointer sample is the   *)
(* world-space point where the ray meets the plane, or <<>> when           *)
(* intersectPlane returns null.                                            *)

MaxElevation == 50
ViewerBuilds == {"first", "second"}
RaySamples ==
    {<<>>, <<[x |-> R(0), y |-> R(40)]>>, <<[x |-> R(12), y |-> R(40)]>>,
     <<[x |-> R(-90), y |-> R(10)]>>}

viewerWindow ==
    [id |-> 1, type |-> "window", side |-> "back", x |-> R(36), y |-> R(16),
     width |-> R(48), height |-> R(48)]

viewerDoor ==
    [id |-> 1, type |-> "door", side |-> "back", x |-> R(42), y |-> R(0),
     width |-> R(36), height |-> R(80)]

\* the group position of the attachment, in the space of the room group
localCenter(att) ==
    [x |-> RAdd(att.x, RDiv(att.width, R(2))),
     y |-> RAdd(att.y, RDiv(att.height, R(2)))]

\* the room group is placed at (-room.width / 2, 0, -room.height / 2)
localToWorld(p, rm) == [x |-> RSub(p.x, RDiv(rm.width, R(2))), y |-> p.y]
worldToLocal(p, rm) == [x |-> RAdd(p.x, RDiv(rm.width, R(2))), y |-> p.y]

\* the Vector3 the handlers pass to intersectPlane: left at zero on null
intersectTarget(sample) == IF sample = <<>> THEN [x |-> R(0), y |-> R(0)] ELSE sample[1]

InitViewer ==
    /\ room = defaultLayoutRoom
    /\ items = <<>>
    /\ attachments \in {<<viewerWindow>>, <<viewerDoor>>}
    /\ selectedItemId = NoId
    /\ selectedAttachmentId = NoId
    /\ isoAngle = 0
    /\ invalidItems = {}
    /\ contextMenu = <<>>
    /\ isThreeSceneOpen = TRUE
    /\ now = 2
    /\ viewMode = "iso"
    /\ startAbsPos = <<>>
    /\ dragNode = <<>>
    /\ isDragging = NoId
    /\ landing = <<>>
    /\ url = <<>>
    /\ probe \in {[op |-> "viewer", build |-> b,
                   dragOffset |-> [x |-> R(0), y |-> R(0)],
                   before |-> <<>>, hit |-> FALSE] : b \in ViewerBuilds}

handlePointerDown ==
    /\ isDragging = NoId
    /\ \E k \in 1..Len(attachments), sample \in RaySamples :
          LET att == attachments[k]
              planePoint == localToWorld(localCenter(att), room)
              intersect == intersectTarget(sample)
              result == IF probe.build = "first" THEN sample # <<>> ELSE TRUE
          IN  /\ setLayout(room, items, attachments, NoId, att.id)
              /\ isDragging' = att.id
              /\ probe' = [probe EXCEPT
                     !.dragOffset = IF result
                                    THEN [x |-> RSub(planePoint.x, intersect.x),
                                          y |-> RSub(planePoint.y, intersect.y)]
                                    ELSE @,
                     !.before = <<[x |-> att.x, y |-> att.y]>>,
                     !.hit = (sample # <<>>)]
    /\ UNCHANGED <<isoAngle, contextMenu, isThreeSceneOpen, now, viewMode,
                   startAbsPos, dragNode, landing, url>>

\* the { x, y } update of a pointer-move sample, <<>> when none is issued
pointerMoveUpdate(build, att, rm, dragOffset, sample) ==
    LET intersect == intersectTarget(sample)
        result == IF build = "first" THEN sample # <<>> ELSE TRUE
        newWorldPos == [x |-> RAdd(intersect.x, dragOffset.x),
                        y |-> RAdd(intersect.y, dragOffset.y)]
        localPos == IF build = "first" THEN worldToLocal(newWorldPos, rm)
                    ELSE newWorldPos
        wallLimit == wallLength(att.side, rm)
        rawX == RSub(localPos.x, RDiv(att.width, R(2)))
        rawY == RSub(localPos.y, RDiv(att.height, R(2)))
        lowX == IF RLt(rawX, R(0)) THEN R(0) ELSE rawX
        newWallX == IF RLt(RSub(wallLimit, att.width), lowX)
                    THEN RSub(wallLimit, att.width) ELSE lowX
        newWallY == IF build = "first" /\ att.type = "door" THEN R(0)
                    ELSE IF RLt(rawY, R(0)) THEN R(0) ELSE rawY
    IN  IF result THEN <<[x |-> newWallX, y |-> newWallY]>> ELSE <<>>

handlePointerMoveSample ==
    /\ \E k \in 1..Len(attachments), sample \in RaySamples :
          LET att == attachments[k]
              updates == pointerMoveUpdate(probe.build, att, room,
                                           probe.dragOffset, sample)
          IN  /\ updates # <<>> => RLe(updates[1].y, R(MaxElevation))
              /\ IF isDragging # att.id \/ updates = <<>>
                 THEN /\ UNCHANGED <<layoutVars, invalidItems>>
                      /\ probe' = IF isDragging = att.id
                                  THEN [probe EXCEPT !.hit = @ \/ sample # <<>>]
                                  ELSE probe
                 ELSE /\ setLayout(room, items,
                                   updatedAttachments(att.id, updates[1]),
                                   selectedItemId, selectedAttachmentId)
                      /\ probe' = [probe EXCEPT !.hit = @ \/ sample # <<>>]
    /\ UNCHANGED <<isoAngle, contextMenu, isThreeSceneOpen, now, sessionVars>>

handlePointerUp ==
    /\ isDragging # NoId
    /\ isDragging' = NoId
    /\ UNCHANGED <<layoutVars, isoAngle, invalidItems, contextMenu,
                   isThreeSceneOpen, now, probe, viewMode, startAbsPos,
                   dragNode, landing, url>>

NextViewer == handlePointerDown \/ handlePointerMoveSample \/ handlePointerUp

SpecViewer == InitViewer /\ [][NextViewer]_vars

(* ---- C17 ---- *)

\* C17: a wall-attachment drag gesture in the 3D viewer during which no
\* pointer sample produced a valid ray/plane intersection issues no update:
\* the attachment's x and y equal their values at pointer down, during the
\* gesture and after it.
C17_NoIntersectionNoUpdate ==
    (probe.before # <<>> /\ ~probe.hit)
        => /\ attachments[1].x = probe.before[1].x
           /\ attachments[1].y = probe.before[1].y

\* in the build of the second definition a gesture without any valid
\* intersection has ended and the window is no longer where it was
C17_Witness ==
    /\ probe.build = "second"
    /\ probe.before # <<>>
    /\ ~probe.hit
    /\ isDragging = NoId
    /\ attachments[1].x # probe.before[1].x

(* ---- C18 ---- *)

\* the rotation the claim gives to a selected item
Toggled(rotation) == IF rotation = 0 THEN 90 ELSE 0

\* C18: rotateItem changes only the rotation of the selected item, 0 to 90
\* and 90 to 0, so two calls in a row restore it; x, y, width and height of
\* the item, every item that is not selected, the room, the attachments and
\* the selection are unchanged; with no item selected nothing changes.
C18_RotateToggle ==
    [][/\ \A k \in 1..Len(items) : items[k].rotation \in {0, 90}
       /\ rotateSelected(rotateSelected(items, selectedItemId), selectedItemId) = items
       /\ rotateSelected(items, NoId) = items
       /\ handleRotate =>
             /\ layoutState' = [layoutState EXCEPT !.items = items']
             /\ Len(items') = Len(items)
             /\ \A k \in 1..Len(items) :
                   IF items[k].id = selectedItemId
                   THEN items'[k] = [items[k] EXCEPT !.rotation = Toggled(@)]
                   ELSE items'[k] = items[k]]_vars

\* of two items with different ids the selected one is turned and flagged,
\* the other is as it was added
C18_Witness ==
    /\ Len(items) = 2
    /\ items[1].id # items[2].id
    /\ selectedItemId = items[2].id
    /\ items[2].rotation = 90
    /\ items[1].rotation = 0
    /\ items[2].id \in invalidItems

-----------------------------------------------------------------------------
(* From the landing page into the editor: the room inputs, "Start" and the *)
(* mount of the editor with the layout parameter.                          *)

LandingInputs == {0, 60}

InitLanding ==
    /\ EditorMount
    /\ landing = <<[width |-> R(108), height |-> R(132)]>>
    /\ url = <<>>
    /\ probe = [op |-> "idle"]

\* onChange of the width input: setWidth(Number(e.target.value))
setWidth ==
    /\ landing # <<>>
    /\ \E v \in LandingInputs : landing' = <<[landing[1] EXCEPT !.width = R(v)]>>
    /\ UNCHANGED <<layoutVars, isoAngle, invalidItems, contextMenu,
                   isThreeSceneOpen, now, probe, viewMode, startAbsPos,
                   dragNode, isDragging, url>>

\* onChange of the height input: setHeight(Number(e.target.value))
setHeight ==
    /\ landing # <<>>
    /\ \E v \in LandingInputs : landing' = <<[landing[1] EXCEPT !.height = R(v)]>>
    /\ UNCHANGED <<layoutVars, isoAngle, invalidItems, contextMenu,
                   isThreeSceneOpen, now, probe, viewMode, startAbsPos,
                   dragNode, isDragging, url>>

\* "Start": serialize a new layout and open /editor?layout=...
handleStart ==
    /\ landing # <<>>
    /\ url' = <<serializeLayout([room |-> landing[1], items |-> <<>>,
                                 attachments |-> <<>>, selectedItemId |-> NoId])>>
    /\ landing' = <<>>
    /\ UNCHANGED <<layoutVars, isoAngle, invalidItems, contextMenu,
                   isThreeSceneOpen, now, probe, viewMode, startAbsPos,
                   dragNode, isDragging>>

\* the editor is on screen and its mount effects have run
InEditor == landing = <<>> /\ url = <<>>

NextLanding ==
    \/ setWidth
    \/ setHeight
    \/ handleStart
    \/ landing = <<>> /\ loadFromUrl
    \/ InEditor /\ Tick
    \/ InEditor /\ handleUpdateRoom
    \/ InEditor /\ handleAddItem
    \/ InEditor /\ handleSelect
    \/ InEditor /\ handleDeselect
    \/ InEditor /\ handleRotate
    \/ InEditor /\ handleDelete
    \/ InEditor /\ handleReset

SpecLanding == InitLanding /\ [][NextLanding]_vars

(* ---- C19 ---- *)

\* C19: in every reachable state room.width > 0 and room.height > 0, and
\* only resizeRoom (which changes nothing but the room) and the load of a
\* whole layout change the room.
C19_RoomPositive ==
    [][/\ RLt(R(0), room'.width)
       /\ RLt(R(0), room'.height)
       /\ room' # room
             => \/ url # <<>>
                \/ layoutState' = [layoutState EXCEPT !.room = room']]_vars

\* the editor shows a room of width 0 that came from the landing page
C19_Witness ==
    /\ InEditor
    /\ room.width = R(0)
    /\ room.height = R(132)

(* ---- C20 ---- *)

\* C20: validity is advisory. Whatever the invalid set is, resizeRoom is
\* enabled and sets the room to the input, rotateItem is enabled for a
\* selection and a drag can be started on any item; a resizeRoom step
\* changes nothing but the room, a rotateItem step turns the selected item
\* and a drag-end step places the dragged id at the snapped candidate, also
\* when the result is out of bounds or overlapping.
C20_ValidityAdvisory ==
    /\ [](PointerFree =>
             /\ \A v \in RoomSizeInputs :
                   ENABLED (handleUpdateRoomFrom({"width"}) /\ room'.width = R(v))
             /\ (selectedItemId # NoId) => ENABLED handleRotate
             /\ (items # <<>>) => ENABLED (isoDragStart \/ flatDragStart))
    /\ [][
           /\ (room' # room /\ url = <<>>) =>
                 (layoutState' = [layoutState EXCEPT !.room = room'])
           /\ handleRotate =>
                 (layoutState' = [layoutState EXCEPT
                                     !.items = rotateSelected(items, selectedItemId)])
           /\ (dragNode # <<>> /\ dragNode' = <<>>) =>
                 (layoutState' = [layoutState EXCEPT
                                     !.items = moveItem(items, dragNode[1].id,
                                                        DragCandidate.x, DragCandidate.y)])
          ]_vars

\* the room has been shrunk around a bed that lies across the right wall,
\* and the flagged bed has been turned afterwards
C20_Witness ==
    /\ dragNode = <<>>
    /\ room.width = R(60)
    /\ Len(items) >= 1
    /\ items[1].x = R(94)
    /\ items[1].rotation = 90
    /\ items[1].id \in invalidItems

\* ---------------------------------------------------------------------------
\* The layout parameter of the URL: what deserializeLayout accepts
\* ---------------------------------------------------------------------------

codecBed ==
    [id |-> 9, width |-> R(60), height |-> R(80), x |-> R(94), y |-> R(32),
     rotation |-> 0]

\* values found under "room" in a decoded parameter (JsUndefined: no such key)
RoomShapes ==
    {JsUndefined, JsNull, R(0), R(5), JsArray(<<>>),
     JsObject([width |-> R(120)]),
     JsObject([width |-> JsText, height |-> R(144)]),
     JsObject(defaultLayoutRoom)}

\* values found under "items"
ItemsShapes ==
    {JsUndefined, JsNull, JsText, JsObject([count |-> R(1)]), JsArray(<<>>),
     JsArray(<<JsNull>>), JsArray(<<JsObject([id |-> 9, width |-> R(60)])>>),
     JsArray(<<JsObject(codecBed)>>)}

\* values found under "attachments"
AttachmentsShapes ==
    {JsUndefined, R(5), JsArray(<<>>), JsArray(<<JsObject(frameDoor)>>)}

\* the object with the keys whose value is not undefined
dataObject(r, i, a) ==
    LET val == [room |-> r, items |-> i, attachments |-> a]
        present == {nm \in DOMAIN val : isNumber(val[nm]) \/ val[nm].kind # "undefined"}
    IN  JsObject([nm \in present |-> val[nm]])

\* layout parameters: one that does not decode, ones that parse to a value that
\* is no object, and objects over the shapes above
DecodeInputs ==
    {[text |-> "garbage"]}
    \cup {[text |-> "json", data |-> d] : d \in {JsNull, R(7), JsText, JsArray(<<>>)}}
    \cup {[text |-> "json", data |-> dataObject(r, i, a)] :
             r \in RoomShapes, i \in ItemsShapes, a \in AttachmentsShapes}

wellFormedRoom(v) ==
    /\ ~isNumber(v)
    /\ v.kind = "object"
    /\ {"width", "height"} \subseteq DOMAIN v.value
    /\ isNumber(v.value.width)
    /\ isNumber(v.value.height)

wellFormedItem(v) ==
    /\ ~isNumber(v)
    /\ v.kind = "object"
    /\ {"id", "width", "height", "x", "y", "rotation"} \subseteq DOMAIN v.value
    /\ \A nm \in {"width", "height", "x", "y"} : isNumber(v.value[nm])

wellFormedItems(v) ==
    /\ ~isNumber(v)
    /\ v.kind = "array"
    /\ \A k \in 1..Len(v.value) : wellFormedItem(v.value[k])

wellFormedAttachments(v) ==
    /\ ~isNumber(v)
    /\ \/ v.kind = "undefined"
       \/ /\ v.kind = "array"
          /\ \A k \in 1..Len(v.value) :
                ~isNumber(v.value[k]) /\ v.value[k].kind = "object"

\* the parameter parses to an object whose room, items and attachments are
\* well-formed
wellFormedData(encoded) ==
    /\ encoded.text = "json"
    /\ ~isNumber(encoded.data)
    /\ encoded.data.kind = "object"
    /\ wellFormedRoom(getProp(encoded.data, "room"))
    /\ wellFormedItems(getProp(encoded.data, "items"))
    /\ wellFormedAttachments(getProp(encoded.data, "attachments"))

\* parameters the editor is opened with: one that does not decode, the value
\* null, every room shape with an empty item list, and a complete room
\* without items key and with one bed
MountInputs ==
    {[text |-> "garbage"], [text |-> "json", data |-> JsNull]}
    \cup {[text |-> "json", data |-> dataObject(r, JsArray(<<>>), JsUndefined)] :
             r \in RoomShapes}
    \cup {[text |-> "json",
           data |-> dataObject(JsObject(defaultLayoutRoom), i, JsUndefined)] :
             i \in {JsUndefined, JsArray(<<JsObject(codecBed)>>)}}

\* layouts of a session, with and without a selection
CodecLayouts ==
    {[room |-> defaultLayoutRoom, items |-> its, attachments |-> atts,
      selectedItemId |-> si, selectedAttachmentId |-> sa] :
        its \in {<<>>, <<codecBed>>}, atts \in {<<>>, <<frameDoor>>},
        si \in {NoId, 9}, sa \in {NoId, 3}}

InitCodec ==
    /\ EditorMount
    /\ landing = <<>>
    /\ url \in {<<>>} \cup {<<e>> : e \in MountInputs}
    /\ probe = [op |-> "idle"]

\* deserializeLayout on a layout parameter
ProbeDeserialize ==
    /\ \E e \in DecodeInputs :
          probe' = [op |-> "deserialize", encoded |-> e,
                    result |-> deserializeLayout(e)]
    /\ UNCHANGED <<editorVars, sessionVars>>

\* the link written by the "Update URL" effect, opened again
ProbeRoundTrip ==
    /\ \E l \in CodecLayouts :
          probe' = [op |-> "roundTrip", layout |-> l,
                    result |-> deserializeLayout(serializeLayout(l))]
    /\ UNCHANGED <<editorVars, sessionVars>>

NextCodec ==
    \/ loadFromUrl
    \/ ProbeDeserialize
    \/ ProbeRoundTrip

SpecCodec == InitCodec /\ [][NextCodec]_vars

\* C21: deserializeLayout returns a layout only for a parameter whose room,
\* items and attachments are well-formed, and once the mount effect has run
\* the editor's room has a width and a height and nothing else (the default
\* layout or a complete loaded one).
C21_NoPartialLayout ==
    /\ (probe.op = "deserialize" /\ probe.result # <<>>) =>
          wellFormedData(probe.encoded)
    /\ url = <<>> => DOMAIN room = {"width", "height"}

\* a parameter without items was rejected and the editor kept its default layout
C21_Witness ==
    /\ probe.op = "deserialize"
    /\ probe.encoded.text = "json"
    /\ getProp(probe.encoded.data, "room") = JsObject(defaultLayoutRoom)
    /\ getProp(probe.encoded.data, "items") = JsUndefined
    /\ probe.result = <<>>
    /\ url = <<>>
    /\ layoutState = [room |-> defaultLayoutRoom, items |-> <<>>,
                      attachments |-> <<>>, selectedItemId |-> NoId,
                      selectedAttachmentId |-> NoId]

\* C22: a layout written to the link and read back is the same layout on the
\* room, the items, the attachments and both selection fields.
C22_RoundTrip ==
    probe.op = "roundTrip" => probe.result = <<probe.layout>>

\* a layout with a selected bed went through the link
C22_Witness ==
    /\ probe.op = "roundTrip"
    /\ probe.layout.selectedItemId = 9
    /\ probe.result # <<>>
    /\ probe.result[1].items = probe.layout.items

\* ---------------------------------------------------------------------------
\* ImageModelCreator: a furniture item measured on a photo
\* ---------------------------------------------------------------------------

\* stage positions clicked as calibration points (50 pixels apart)
RefClickPoints == {[x |-> R(100), y |-> R(100)], [x |-> R(130), y |-> R(140)]}
\* values typed into the reference size input
RefLengthInputs == {0, 10}
\* stage positions of the pointer while the bounds are drawn
CropPoints == {[x |-> R(100), y |-> R(100)], [x |-> R(200), y |-> R(100)],
               [x |-> R(200), y |-> R(250)]}

\* Math.sqrt on the squares of the model
RECURSIVE sqrtFrom(_, _)
sqrtFrom(k, sq) == IF k * k >= sq THEN k ELSE sqrtFrom(k + 1, sq)
MathSqrt(a) == Frac(sqrtFrom(0, a.n), sqrtFrom(0, a.d))

calculatePixelsPerInch(refPoints, refLength) ==
    IF Len(refPoints) # 2 THEN R(0)
    ELSE LET dx == RSub(refPoints[2].x, refPoints[1].x)
             dy == RSub(refPoints[2].y, refPoints[1].y)
             pixelDistance == MathSqrt(RAdd(RMul(dx, dx), RMul(dy, dy)))
         IN  RDiv(pixelDistance, refLength)

\* the component as the camera dialog opens it
InitPhoto ==
    /\ EditorIdle
    /\ probe = [op |-> "photo", open |-> TRUE, step |-> "upload",
                imageSrc |-> FALSE, image |-> FALSE, refPoints |-> <<>>,
                refLength |-> Frac(17, 2), cropRect |-> <<>>,
                isDrawing |-> FALSE, startPoint |-> <<>>, finish |-> "none"]

handleFileChange ==
    /\ probe.open /\ probe.step = "upload"
    /\ probe' = [probe EXCEPT !.imageSrc = TRUE, !.step = "calibrate"]
    /\ UNCHANGED <<editorVars, sessionVars>>

\* useImage: the picture has been decoded
useImage ==
    /\ probe.open /\ probe.imageSrc /\ ~probe.image
    /\ probe' = [probe EXCEPT !.image = TRUE]
    /\ UNCHANGED <<editorVars, sessionVars>>

handleStageClick ==
    /\ probe.open /\ probe.step = "calibrate"
    /\ \E pt \in RefClickPoints :
          probe' = [probe EXCEPT !.refPoints =
                       IF Len(probe.refPoints) < 2
                       THEN Append(probe.refPoints, pt) ELSE <<pt>>]
    /\ UNCHANGED <<editorVars, sessionVars>>

setRefLength ==
    /\ probe.open /\ probe.step = "calibrate"
    /\ \E v \in RefLengthInputs : probe' = [probe EXCEPT !.refLength = R(v)]
    /\ UNCHANGED <<editorVars, sessionVars>>

\* the Next button, disabled unless two points are placed
setStepCrop ==
    /\ probe.open /\ probe.step = "calibrate"
    /\ Len(probe.refPoints) = 2
    /\ probe' = [probe EXCEPT !.step = "crop"]
    /\ UNCHANGED <<editorVars, sessionVars>>

\* the Back button
setStepCalibrate ==
    /\ probe.open /\ probe.step = "crop"
    /\ probe' = [probe EXCEPT !.step = "calibrate"]
    /\ UNCHANGED <<editorVars, sessionVars>>

handleMouseDown ==
    /\ probe.open /\ probe.step = "crop"
    /\ \E pt \in CropPoints :
          probe' = [probe EXCEPT !.isDrawing = TRUE, !.startPoint = <<pt>>,
                                 !.cropRect = <<[x |-> pt.x, y |-> pt.y,
                                                 width |-> R(0), height |-> R(0)]>>]
    /\ UNCHANGED <<editorVars, sessionVars>>

handleMouseMove ==
    /\ probe.open /\ probe.step = "crop"
    /\ probe.isDrawing /\ probe.startPoint # <<>>
    /\ \E pt \in CropPoints :
          LET startPoint == probe.startPoint[1]
          IN  probe' = [probe EXCEPT !.cropRect =
                           <<[x |-> RMin(pt.x, startPoint.x),
                              y |-> RMin(pt.y, startPoint.y),
                              width |-> RAbs(RSub(pt.x, startPoint.x)),
                              height |-> RAbs(RSub(pt.y, startPoint.y))]>>]
    /\ UNCHANGED <<editorVars, sessionVars>>

handleMouseUp ==
    /\ probe.open /\ probe.step = "crop"
    /\ probe' = [probe EXCEPT !.isDrawing = FALSE]
    /\ UNCHANGED <<editorVars, sessionVars>>

\* the item handleSave builds from the bounds and the calibration
photoItem(cropRect, ppi, id) ==
    [id |-> id,
     width |-> MathRound(RDiv(cropRect.width, ppi)),
     height |-> MathRound(RDiv(cropRect.height, ppi)),
     x |-> R(0), y |-> R(0), rotation |-> 0]

\* handleSavePhotoItem: centre the item, append and select it, close the dialog
handleSavePhotoItem(item) ==
    /\ LET centred == [item EXCEPT
                          !.x = RSub(RDiv(room.width, R(2)), RDiv(item.width, R(2))),
                          !.y = RSub(RDiv(room.height, R(2)), RDiv(item.height, R(2)))]
       IN  setLayout(room, Append(items, centred), attachments, item.id,
                     selectedAttachmentId)
    /\ probe' = [probe EXCEPT !.open = FALSE, !.finish = "saved"]

\* the Finish button (disabled without bounds or with bounds of width 0) and
\* handleSave behind it
handleSave ==
    /\ probe.open /\ probe.step = "crop"
    /\ probe.cropRect # <<>> /\ probe.cropRect[1].width # R(0)
    /\ LET ppi == calculatePixelsPerInch(probe.refPoints, probe.refLength)
       IN  IF ~probe.imageSrc \/ ppi = R(0) \/ ~probe.image
           THEN /\ probe' = [probe EXCEPT !.finish = "returned"]
                /\ UNCHANGED <<layoutVars, invalidItems>>
           ELSE handleSavePhotoItem(photoItem(probe.cropRect[1], ppi, now))
    /\ UNCHANGED <<isoAngle, contextMenu, isThreeSceneOpen, now, sessionVars>>

\* the close button of the dialog
onClosePhoto ==
    /\ probe.open
    /\ probe' = [probe EXCEPT !.open = FALSE]
    /\ UNCHANGED <<editorVars, sessionVars>>

NextPhoto ==
    \/ handleFileChange
    \/ useImage
    \/ handleStageClick
    \/ setRefLength
    \/ setStepCrop
    \/ setStepCalibrate
    \/ handleMouseDown
    \/ handleMouseMove
    \/ handleMouseUp
    \/ handleSave
    \/ onClosePhoto

SpecPhoto == InitPhoto /\ [][NextPhoto]_vars

\* the calibration reference has a positive length and the bounds a positive
\* width and height
PositiveMeasures ==
    /\ RLt(R(0), probe.refLength)
    /\ Len(probe.refPoints) = 2
    /\ probe.refPoints[1] # probe.refPoints[2]
    /\ probe.cropRect # <<>>
    /\ RLt(R(0), probe.cropRect[1].width)
    /\ RLt(R(0), probe.cropRect[1].height)

\* C23: a step of the photo dialog adds an item to the layout only when the
\* reference length is positive, the two reference points differ and the
\* bounds have a positive width and a positive height.
C23_DegenerateRejected ==
    [][items' # items => PositiveMeasures]_vars

\* Finish was pressed on bounds drawn over two coincident reference points:
\* handleSave returned and the layout is still empty
C23_Witness ==
    /\ probe.finish = "returned"
    /\ probe.image
    /\ Len(probe.refPoints) = 2
    /\ probe.refPoints[1] = probe.refPoints[2]
    /\ RLt(R(0), probe.refLength)
    /\ items = <<>>

\* ---------------------------------------------------------------------------
\* Two pointers: furniture gestures of the isometric view that overlap in time
\* ---------------------------------------------------------------------------

MaxTouches == 2
\* gestures that are carried through to their commit in one session
MaxCommits == 2
\* the world points a pointer carries the grabbed corner of its item to
TouchTargets == {[x |-> Frac(187, 2), y |-> R(32)], [x |-> R(12), y |-> R(20)]}

\* a sequence without its p-th entry
removeAt(seq, p) ==
    [k \in 1..(Len(seq) - 1) |-> IF k < p THEN seq[k] ELSE seq[k + 1]]

InitTouch ==
    /\ EditorIdle
    /\ probe = [op |-> "touch", commits |-> 0]

\* onDragStart of the IsoFurniture at index k: the component keeps its own
\* startAbsPos ref, the node starts at offset (0, 0); origin notes where the
\* item was stored when the gesture began
isoTouchStart ==
    /\ viewMode = "iso"
    /\ Len(dragNode) < MaxTouches
    /\ \E k \in 1..Len(items) :
          /\ \A p \in 1..Len(dragNode) : dragNode[p].index # k
          /\ startAbsPos' = Append(startAbsPos, stageCenter)
          /\ dragNode' = Append(dragNode,
                                [id |-> items[k].id, index |-> k, moved |-> FALSE,
                                 x |-> R(0), y |-> R(0),
                                 origin |-> [x |-> items[k].x, y |-> items[k].y]])
          /\ setLayout(room, items, attachments, items[k].id, selectedAttachmentId)
    /\ UNCHANGED <<isoAngle, contextMenu, isThreeSceneOpen, now, probe, viewMode,
                   isDragging, landing, url>>

\* a drag-move sample of the p-th gesture
isoTouchMove ==
    /\ viewMode = "iso"
    /\ \E p \in 1..Len(dragNode), t \in TouchTargets :
          LET item == items[dragNode[p].index]
              from == renderPoint(item.x, item.y, isoAngle, room.width, room.height,
                                  isoPixelsPerUnit)
              to == renderPoint(t.x, t.y, isoAngle, room.width, room.height,
                                isoPixelsPerUnit)
              pos == [x |-> RAdd(startAbsPos[p].x, RSub(to.x, from.x)),
                      y |-> RAdd(startAbsPos[p].y, RSub(to.y, from.y))]
              held == isoDragBoundFunc(item, isoAngle, isoPixelsPerUnit,
                                       <<startAbsPos[p]>>, pos)
          IN  dragNode' = [dragNode EXCEPT
                              ![p] = [@ EXCEPT !.moved = TRUE,
                                               !.x = RSub(held.x, startAbsPos[p].x),
                                               !.y = RSub(held.y, startAbsPos[p].y)]]
    /\ UNCHANGED <<layoutVars, isoAngle, invalidItems, contextMenu,
                   isThreeSceneOpen, now, probe, viewMode, startAbsPos,
                   isDragging, landing, url>>

\* handleDragEnd of the p-th gesture with the onItemMove of LayoutEditor
isoTouchEnd ==
    /\ viewMode = "iso"
    /\ probe.commits < MaxCommits
    /\ probe' = [probe EXCEPT !.commits = @ + 1]
    /\ \E p \in 1..Len(dragNode) :
          /\ \E final \in {isoDragEndPosition(items[dragNode[p].index], isoAngle,
                                               isoPixelsPerUnit,
                                               dragNode[p].x, dragNode[p].y)} :
                setLayout(room, moveItem(items, dragNode[p].id, final.x, final.y),
                          attachments, selectedItemId, selectedAttachmentId)
          /\ startAbsPos' = removeAt(startAbsPos, p)
          /\ dragNode' = removeAt(dragNode, p)
    /\ UNCHANGED <<isoAngle, contextMenu, isThreeSceneOpen, now, viewMode,
                   isDragging, landing, url>>

NextTouch ==
    \/ Tick
    \/ dragNode = <<>> /\ handleAddItemCapped(MaxLayoutItems)
    \/ isoTouchStart
    \/ isoTouchMove
    \/ isoTouchEnd

SpecTouch == InitTouch /\ [][NextTouch]_vars

\* where the commit of a gesture puts its item, from the item as stored now
touchCandidate(its, node) ==
    isoDragEndPosition(its[node.index], isoAngle, isoPixelsPerUnit, node.x, node.y)

\* the same from the position the item had when the gesture began
ownCandidate(its, node) ==
    isoDragEndPosition([its[node.index] EXCEPT !.x = node.origin.x,
                                               !.y = node.origin.y],
                       isoAngle, isoPixelsPerUnit, node.x, node.y)

\* C24: gestures on different items are independent. A gesture that a step
\* leaves alone keeps its anchor and its candidate, and the step that ends a
\* gesture moves the item of that gesture, and no other item, to the snapped
\* candidate computed from the position the item had when the gesture began.
C24_IndependentGestures ==
    [][\A p \in 1..Len(dragNode) :
          /\ \A q \in 1..Len(dragNode') :
                dragNode'[q] = dragNode[p] =>
                   /\ startAbsPos'[q] = startAbsPos[p]
                   /\ touchCandidate(items', dragNode'[q])
                         = touchCandidate(items, dragNode[p])
          /\ dragNode' = removeAt(dragNode, p) =>
                items' = [items EXCEPT
                             ![dragNode[p].index].x = ownCandidate(items, dragNode[p]).x,
                             ![dragNode[p].index].y = ownCandidate(items, dragNode[p]).y]
      ]_vars

\* both gestures have committed: the first item lies on one target and the
\* second on the other
C24_Witness ==
    /\ dragNode = <<>>
    /\ Len(items) = 2
    /\ items[1].id # items[2].id
    /\ items[1].x = R(94) /\ items[1].y = R(32)
    /\ items[2].x = R(12) /\ items[2].y = R(20)

\* ---------------------------------------------------------------------------
\* IsoScene: the draw order of the furniture
\* ---------------------------------------------------------------------------

\* the Rotate View button
handleRotateView ==
    /\ viewMode = "iso"
    /\ isoAngle' = (isoAngle + 90) % 360
    /\ UNCHANGED <<layoutVars, invalidItems, contextMenu, isThreeSceneOpen, now,
                   probe, sessionVars>>

\* the key the comparator of sortedItems subtracts: ra.x + ra.y
\* (a variant that forgets the view rotation)
sceneDepth_unrotated(item, viewAngle, rm) == RAdd(item.x, item.y)

sceneDepth(item, viewAngle, rm) ==
    LET ra == rotatePoint(item.x, item.y, viewAngle, rm.width, rm.height)
    IN  RAdd(ra.x, ra.y)

\* Array.prototype.sort is stable: an item goes behind the items already
\* placed whose key is not greater
RECURSIVE sortInsert(_, _, _, _)
sortInsert(sorted, item, viewAngle, rm) ==
    IF sorted = <<>> THEN <<item>>
    ELSE IF RLt(sceneDepth(item, viewAngle, rm),
                sceneDepth(sorted[Len(sorted)], viewAngle, rm))
         THEN Append(sortInsert(SubSeq(sorted, 1, Len(sorted) - 1), item,
                                viewAngle, rm),
                     sorted[Len(sorted)])
         ELSE Append(sorted, item)

RECURSIVE sortItems(_, _, _)
sortItems(its, viewAngle, rm) ==
    IF its = <<>> THEN <<>>
    ELSE sortInsert(sortItems(SubSeq(its, 1, Len(its) - 1), viewAngle, rm),
                    its[Len(its)], viewAngle, rm)

\* the memo of IsoScene: a sorted copy, recomputed from layout.items,
\* viewAngle and layout.room
sortedItems == sortItems(items, isoAngle, room)

NextDepth ==
    \/ Tick
    \/ PointerFree /\ handleRotateView
    \/ PointerFree /\ handleSelect
    \/ PointerFree /\ handleUpdateRoomFrom({"width"})
    \/ PointerFree /\ handleAddItemCapped(MaxLayoutItems)
    \/ PointerFree /\ handleDuplicate
    \/ PointerFree /\ handleDelete
    \/ PointerFree /\ isoDragStart
    \/ isoDragMove
    \/ isoDragEnd

SpecDepth == Init /\ [][NextDepth]_vars

\* how often a value occurs in a sequence
occurrences(seq, v) == Cardinality({k \in 1..Len(seq) : seq[k] = v})

\* C25: in every state the draw order holds exactly the items of the model
\* (each as often as the model holds it) and is ascending in
\* rotatedX + rotatedY under the current view angle.
C25_DepthOrder ==
    /\ Len(sortedItems) = Len(items)
    /\ \A k \in 1..Len(items) :
          occurrences(sortedItems, items[k]) = occurrences(items, items[k])
    /\ \A k \in 1..(Len(sortedItems) - 1) :
          RLe(RAdd(rotatePoint(sortedItems[k].x, sortedItems[k].y, isoAngle,
                               room.width, room.height).x,
                   rotatePoint(sortedItems[k].x, sortedItems[k].y, isoAngle,
                               room.width, room.height).y),
              RAdd(rotatePoint(sortedItems[k + 1].x, sortedItems[k + 1].y, isoAngle,
                               room.width, room.height).x,
                   rotatePoint(sortedItems[k + 1].x, sortedItems[k + 1].y, isoAngle,
                               room.width, room.height).y))

\* the view is turned half round and the item added last is drawn first
C25_Witness ==
    /\ isoAngle = 180
    /\ Len(items) = 2
    /\ sortedItems = <<items[2], items[1]>>
    /\ items[1] # items[2]

\* ---------------------------------------------------------------------------
\* The selection over a session with furniture, attachments and a link
\* ---------------------------------------------------------------------------

NextSelection ==
    \/ Tick
    \/ loadFromUrl
    \/ PointerFree /\ handleSelect
    \/ PointerFree /\ handleDeselect
    \/ PointerFree /\ handleAddItemCapped(MaxLayoutItems)
    \/ PointerFree /\ handleDuplicate
    \/ PointerFree /\ handleDelete
    \/ PointerFree /\ handleReset
    \/ PointerFree /\ openThreeScene
    \/ PointerFree /\ onClose
    \/ PointerFree /\ handleWallClick
    \/ PointerFree /\ handleAddStart
    \/ PointerFree /\ handlePointerMissed
    \/ PointerFree /\ handleSelectAttachment
    \/ PointerFree /\ handleDeleteAttachment

SpecSelection == InitItems /\ [][NextSelection]_vars

\* C26: the selected item id is null or the id of an item of the list, and
\* the selected attachment id is null or the id of an attachment of the list.
C26_SelectionExists ==
    /\ selectedItemId = NoId
          \/ \E k \in 1..Len(items) : items[k].id = selectedItemId
    /\ selectedAttachmentId = NoId
          \/ \E k \in 1..Len(attachments) : attachments[k].id = selectedAttachmentId

\* a copy made by handleDuplicate is selected while an attachment added in
\* the 3D view is selected too
C26_Witness ==
    /\ Len(items) = 2
    /\ items[2].x = RAdd(items[1].x, R(5))
    /\ selectedItemId = items[2].id
    /\ attachments # <<>>
    /\ selectedAttachmentId = attachments[1].id

\* ---------------------------------------------------------------------------
\* A drag that ends where it began
\* ---------------------------------------------------------------------------

\* the node of the gesture in progress has not left its start position
ZeroDisplacement ==
    /\ dragNode # <<>>
    /\ IF viewMode = "iso"
       THEN dragNode[1].x = R(0) /\ dragNode[1].y = R(0)
       ELSE /\ dragNode[1].x = RMul(items[dragNode[1].index].x, PIXELS_PER_UNIT)
            /\ dragNode[1].y = RMul(items[dragNode[1].index].y, PIXELS_PER_UNIT)

\* a coordinate the commit keeps: a multiple of the grid size, or an integer
\* at least the threshold away from every multiple
SnapFixed(c) == c.d = 1 /\ (c.n % SNAP_SIZE) \in {0, 2, 3, 4}

\* what a commit may do to one stored coordinate of an unmoved item
ZeroDragResult(before, after) ==
    /\ SnapFixed(after)
    /\ SnapFixed(before) => after = before
    /\ ~SnapFixed(before) =>
          after # before /\ RLt(RAbs(RSub(after, before)), R(SNAP_THRESHOLD))

\* C27 as stated: a drag that ends with zero displacement leaves the stored
\* (x, y) of the dragged item unchanged.
C27_ZeroDragIdentity ==
    [][(ZeroDisplacement /\ dragNode' = <<>>) =>
          /\ items'[dragNode[1].index].x = items[dragNode[1].index].x
          /\ items'[dragNode[1].index].y = items[dragNode[1].index].y]_vars

\* C27 amended: a drag that ends with zero displacement commits the snap of
\* the stored coordinates. A coordinate stays if it is a multiple of 6 or an
\* integer at least 2 away from every multiple of 6; any other coordinate
\* moves by less than 2 (35 becomes 36). Every commit stores coordinates that
\* stay, so positions that come from an earlier commit are left unchanged.
C27_ZeroDragSnaps ==
    [][(dragNode # <<>> /\ dragNode' = <<>>) =>
          /\ SnapFixed(items'[dragNode[1].index].x)
          /\ SnapFixed(items'[dragNode[1].index].y)
          /\ ZeroDisplacement =>
                /\ ZeroDragResult(items[dragNode[1].index].x,
                                  items'[dragNode[1].index].x)
                /\ ZeroDragResult(items[dragNode[1].index].y,
                                  items'[dragNode[1].index].y)]_vars

\* a copy made at (35, 37) lies at (36, 36) under the original at (30, 32)
C27_Witness ==
    /\ dragNode = <<>>
    /\ Len(items) = 2
    /\ items[1].x = R(30) /\ items[1].y = R(32)
    /\ items[2].x = R(36) /\ items[2].y = R(36)

\* ---------------------------------------------------------------------------
\* The isometric drag: what is shown against what is stored
\* ---------------------------------------------------------------------------

\* the room position at which the dragged item is rendered: its stored
\* position plus the room displacement of the offset dragBoundFunc left the
\* node at
LiveRoomPosition ==
    LET node == dragNode[1]
        item == items[node.index]
        dG == inverseIso(node.x, node.y, isoPixelsPerUnit)
        dW == inverseRotation(dG.x, dG.y, isoAngle)
    IN  [x |-> RAdd(item.x, dW.x), y |-> RAdd(item.y, dW.y)]

\* C28: in the isometric view the position stored by the drag-end step is the
\* position at which the last drag-move sample rendered the item, on both
\* axes, under every view angle.
C28_CommitWhatIsShown ==
    [][(viewMode = "iso" /\ dragNode # <<>> /\ dragNode[1].moved
          /\ dragNode' = <<>>) =>
          /\ items'[dragNode[1].index].x = LiveRoomPosition.x
          /\ items'[dragNode[1].index].y = LiveRoomPosition.y]_vars

\* the view is turned by 90 degrees and a bed has been dropped at (94, 32)
C28_Witness ==
    /\ isoAngle = 90
    /\ viewMode = "iso"
    /\ dragNode = <<>>
    /\ items # <<>>
    /\ items[1].x = R(94) /\ items[1].y = R(32)

-----------------------------------------------------------------------------
(* The AI generation request of the add panel: handleGenerateItem is an    *)
(* async function, so the commands of the editor run between its request   *)
(* and the continuation that handles the response.                         *)

MaxRequests == 1
\* texts typed into the prompt field
AiPrompts == {" ", "a round table"}
\* the code field of the response body
ResponseCodes == {"", "return group;"}

\* aiPrompt.trim()
trim(text) == IF text = " " THEN "" ELSE text

InitGenerate ==
    /\ EditorIdle
    /\ probe = [op |-> "generate", aiPrompt |-> "", isGenerating |-> FALSE,
                layout |-> <<>>, requests |-> 0, result |-> "none"]

setAiPrompt ==
    /\ probe.op = "generate"
    /\ \E text \in AiPrompts :
          /\ text # probe.aiPrompt
          /\ probe' = [probe EXCEPT !.aiPrompt = text]
    /\ UNCHANGED editorVars

\* handleGenerateItem up to the await of fetch; layout is the value the
\* closure of the click keeps for the rest of the call
handleGenerateItem ==
    /\ probe.op = "generate"
    /\ ~probe.isGenerating
    /\ probe.requests < MaxRequests
    /\ trim(probe.aiPrompt) # ""
    /\ probe' = [probe EXCEPT !.isGenerating = TRUE,
                              !.layout = <<layoutState>>,
                              !.requests = @ + 1,
                              !.result = "none"]
    /\ UNCHANGED editorVars

\* the item the continuation builds from the layout of its closure
generatedItem(layout) ==
    [id |-> now, width |-> R(36), height |-> R(36),
     x |-> RSub(RDiv(layout.room.width, R(2)), R(18)),
     y |-> RSub(RDiv(layout.room.height, R(2)), R(18)),
     rotation |-> 0]

\* a variant that writes the layout of the closure back
generateAppend_closure(layout, newItem) ==
    setLayout(layout.room, Append(layout.items, newItem), layout.attachments,
              newItem.id, layout.selectedAttachmentId)

\* setLayout((prev) => ({...prev, items: [...prev.items, newItem], ...}))
generateAppend(layout, newItem) ==
    setLayout(room, Append(items, newItem), attachments,
              newItem.id, selectedAttachmentId)

\* the continuation of handleGenerateItem on a response with a body
handleGenerateItemResponse ==
    /\ probe.op = "generate"
    /\ probe.isGenerating
    /\ \E code \in ResponseCodes :
          IF code # ""
          THEN /\ generateAppend(probe.layout[1], generatedItem(probe.layout[1]))
               /\ probe' = [probe EXCEPT !.isGenerating = FALSE, !.aiPrompt = "",
                                         !.result = "item"]
          ELSE /\ probe' = [probe EXCEPT !.isGenerating = FALSE, !.result = "nocode"]
               /\ UNCHANGED <<layoutVars, invalidItems>>
    /\ UNCHANGED <<isoAngle, contextMenu, isThreeSceneOpen, now, sessionVars>>

\* the catch and finally blocks of handleGenerateItem: fetch or json() threw
handleGenerateItemError ==
    /\ probe.op = "generate"
    /\ probe.isGenerating
    /\ probe' = [probe EXCEPT !.isGenerating = FALSE, !.result = "error"]
    /\ UNCHANGED editorVars

\* a request is in flight and no pointer is down
InFlight == probe.isGenerating /\ dragNode = <<>>

NextGenerate ==
    \/ Tick
    \/ setAiPrompt
    \/ handleGenerateItem
    \/ handleGenerateItemResponse
    \/ handleGenerateItemError
    \/ dragNode = <<>> /\ handleAddItemCapped(MaxLayoutItems)
    \/ InFlight /\ handleSelect
    \/ InFlight /\ handleUpdateRoomFrom({"width"})
    \/ InFlight /\ handleRotate
    \/ InFlight /\ handleDelete
    \/ InFlight /\ isoDragStart
    \/ isoDragMove
    \/ isoDragEnd

SpecGenerate == InitGenerate /\ [][NextGenerate]_vars

(* ---- C29 ---- *)

\* C29: when the response of a generation request arrives, whatever commands
\* ran since the request was sent, the generated item is appended to the item
\* list of that moment, the items already in it, the room and the attachments
\* stay as they are, and a request that fails or returns no code changes
\* nothing of the layout.
C29_LateResponse ==
    [][(probe.op = "generate" /\ probe.isGenerating /\ ~probe'.isGenerating) =>
          IF probe'.result = "item"
          THEN /\ Len(items') = Len(items) + 1
               /\ SubSeq(items', 1, Len(items)) = items
               /\ items'[Len(items')].width = R(36)
               /\ room' = room
               /\ attachments' = attachments
          ELSE UNCHANGED layoutVars]_vars

\* a response has added its item behind a bed that was added and turned, in
\* a room that was resized, while the only request was in flight
C29_Witness ==
    /\ probe.op = "generate"
    /\ probe.result = "item"
    /\ probe.requests = 1
    /\ probe.layout[1].items = <<>>
    /\ probe.layout[1].room # room
    /\ Len(items) = 2
    /\ items[1].rotation = 90
    /\ items[2].width = R(36)

-----------------------------------------------------------------------------
(* IsoWallAttachment under the four view angles: an attachment on each     *)
(* wall is dragged along its wall.                                         *)

AllSides == {"front", "back", "left", "right"}
\* displacements along the wall, in room units
WallSlides == {10, -4}
MaxSlides == 2

\* a door or a window a 3D wall click has placed on the wall
placedAttachment(type, side) ==
    [id |-> 3, type |-> type, side |-> side, x |-> R(6),
     y |-> IF type = "door" THEN R(0) ELSE R(40),
     width |-> R(36), height |-> IF type = "door" THEN R(80) ELSE R(36)]

InitWallDrag ==
    /\ room = defaultLayoutRoom
    /\ items = <<>>
    /\ selectedItemId = NoId
    /\ selectedAttachmentId = NoId
    /\ isoAngle = 0
    /\ invalidItems = {}
    /\ contextMenu = <<>>
    /\ isThreeSceneOpen = FALSE
    /\ now = 1
    /\ viewMode = "iso"
    /\ startAbsPos = <<>>
    /\ dragNode = <<>>
    /\ isDragging = NoId
    /\ landing = <<>>
    /\ url = <<>>
    /\ probe = [op |-> "wallIdle", slides |-> 0]
    /\ \E type \in AttachmentTypes, side \in AllSides :
          attachments = <<placedAttachment(type, side)>>

\* the room-space displacement of a slide along the wall of a side
slideVector(side, slide) ==
    IF side = "front" \/ side = "back"
    THEN [x |-> R(slide), y |-> R(0)]
    ELSE [x |-> R(0), y |-> R(slide)]

\* the screen displacement the scene shows for a room-space displacement:
\* rotatePoint and toScreen applied to both ends
screenDelta(d, viewAngle, rm, ppu) ==
    LET from == rotatePoint(R(0), R(0), viewAngle, rm.width, rm.height)
        to == rotatePoint(d.x, d.y, viewAngle, rm.width, rm.height)
        a == toScreen(from.x, from.y, R(0), ppu)
        b == toScreen(to.x, to.y, R(0), ppu)
    IN  [sx |-> RSub(b.x, a.x), sy |-> RSub(b.y, a.y)]

\* an attachment dragged along its wall: handleDragStart, then handleDragEnd at the
\* screen offset of the slide
isoWallSlide ==
    /\ ~isThreeSceneOpen
    /\ viewMode = "iso"
    /\ probe.slides < MaxSlides
    /\ \E k \in 1..Len(attachments), slide \in WallSlides :
          LET attachment == attachments[k]
              s == screenDelta(slideVector(attachment.side, slide), isoAngle,
                               room, isoPixelsPerUnit)
              updates == isoWallDragUpdates(attachment, s.sx, s.sy,
                                            isoPixelsPerUnit, room)
          IN  /\ setLayout(room, items,
                           updatedAttachments(attachment.id, updates),
                           NoId, attachment.id)
              /\ probe' = [op |-> "wallSlide", attachment |-> attachment,
                           slide |-> slide, viewAngle |-> isoAngle,
                           room |-> room, updates |-> updates,
                           slides |-> probe.slides + 1]
    /\ UNCHANGED <<isoAngle, contextMenu, isThreeSceneOpen, now, sessionVars>>

NextWallDrag ==
    \/ handleRotateView
    \/ handleUpdateRoomFrom({"width"})
    \/ isoWallSlide

SpecWallDrag == InitWallDrag /\ [][NextWallDrag]_vars

(* ---- C30 ---- *)

\* the along-wall offset after a slide, clamped as handleDragEnd clamps
slidTo(attachment, slide, rm) ==
    LET limit == IF attachment.side = "left" \/ attachment.side = "right"
                 THEN rm.height ELSE rm.width
    IN  RMax(R(0), RMin(limit, RAdd(attachment.x, R(slide))))

\* C30: under every view angle and on every wall, an attachment dragged by
\* the screen displacement of a slide along its wall is stored at its offset
\* plus the slide (clamped to the wall).
C30_WallDragInvertsRotation ==
    probe.op = "wallSlide" =>
        probe.updates.x = slidTo(probe.attachment, probe.slide, probe.room)

\* a window of the back wall has been dragged 10 units along the wall in the
\* view turned by 180 degrees
C30_Witness ==
    /\ probe.op = "wallSlide"
    /\ probe.viewAngle = 180
    /\ probe.attachment.side = "back"
    /\ probe.attachment.type = "window"
    /\ probe.attachment.x = R(6)
    /\ probe.slide = 10
    /\ attachments[1].x = probe.updates.x

=============================================================================
